---- MODULE Spec2Model ----
(***************************************************************************)
(* yomu: freshness filter (ContentProcessor), source run tracker           *)
(* (Database), newsletter service and cron daemon, modelled as state       *)
(* machines.  Time is an integer instant; datetime's representable range   *)
(* is 0..MaxTime.                                                          *)
(***************************************************************************)
EXTENDS Integers, Sequences, FiniteSets, TLC

\* ------------------------------------------------------------------------
\* Bounds of the model
\* ------------------------------------------------------------------------
\* Longest batch of articles one extraction returns.
MaxBatch == 2
\* Longest feed the extractor returns in the passes of Spec.
MaxFeed == 1
\* Last representable instant (datetime.max); the clock stops there.
MaxTime == 3
\* Capacity of the recency cache, ContentProcessor(max_fallback_urls=...).
max_fallback_urls == 2

\* ------------------------------------------------------------------------
\* Values
\* ------------------------------------------------------------------------
\* Optional[T] is a set with at most one element: None is {}, a value v is {v}.
None == {}

Some(v) == {v}

The(opt) == CHOOSE v \in opt : TRUE

Times == 0..MaxTime

\* A pubDate value, by the format it is written in.  wall is the date-time
\* the text shows, off the UTC offset it shows (0 when it shows none).
\*   "empty"       ""            (also an absent key: article.get default)
\*   "garbage"     text no format accepts
\*   "nonstr"      a truthy value that is no string (no .strip())
\*   "rfc822_name" "%a, %d %b %Y %H:%M:%S %Z"
\*   "rfc822_off"  "%a, %d %b %Y %H:%M:%S %z"
\*   "iso_z"       "%Y-%m-%dT%H:%M:%SZ"
\*   "iso_off"     "%Y-%m-%dT%H:%M:%S%z"
\*   "space"       "%Y-%m-%d %H:%M:%S"
PubDate(fmt, wall, off) == [fmt |-> fmt, wall |-> wall, off |-> off]

EmptyDate == PubDate("empty", 0, 0)

GarbageDate == PubDate("garbage", 0, 0)

NonStrDate == PubDate("nonstr", 0, 0)

\* A parsed datetime: naive (aware = FALSE) or carrying a UTC offset.
NoDate == [some |-> FALSE, wall |-> 0, aware |-> FALSE, off |-> 0]

NaiveDatetime(wall) == [some |-> TRUE, wall |-> wall, aware |-> FALSE, off |-> 0]

AwareDatetime(wall, off) == [some |-> TRUE, wall |-> wall, aware |-> TRUE, off |-> off]

\* utils.COMMON_DATE_FORMATS in order, the first format that parses wins;
\* %Z and the literal Z give a naive datetime, %z an aware one.
parse_date_string(d) ==
    CASE d.fmt = "rfc822_name" -> NaiveDatetime(d.wall)
      [] d.fmt = "rfc822_off"  -> AwareDatetime(d.wall, d.off)
      [] d.fmt = "iso_z"       -> NaiveDatetime(d.wall)
      [] d.fmt = "iso_off"     -> AwareDatetime(d.wall, d.off)
      [] d.fmt = "space"       -> NaiveDatetime(d.wall)
      [] OTHER                 -> NoDate

\* parse_date raises (AttributeError) on a truthy value without .strip().
parse_date_raises(d) == d.fmt = "nonstr"

parse_date(d) ==
    IF d.fmt = "empty" THEN NoDate ELSE parse_date_string(d)

\* normalize_datetime_to_utc_naive dropping the offset without converting.
normalize_dropping_offset(dt) == dt.wall

\* astimezone(timezone.utc) raises OverflowError outside datetime's range.
normalize_raises(dt) == dt.aware /\ (dt.wall - dt.off) \notin Times

normalize_datetime_to_utc_naive(dt) ==
    IF dt.aware THEN dt.wall - dt.off ELSE dt.wall

\* The stored marker is None or the ISO text of an instant.
parse_iso_timestamp(timestamp_str) ==
    IF timestamp_str = None THEN None ELSE timestamp_str

\* ------------------------------------------------------------------------
\* Recency cache: collections.deque(maxlen=max_fallback_urls)
\* ------------------------------------------------------------------------
\* The max_fallback_urls argument of ContentProcessor(...), which becomes the
\* maxlen of the deque.
VARIABLES deque_maxlen

InDeque(x, q) == \E i \in 1..Len(q) : q[i] = x

DequeAppendNoEvict(q, x, maxlen) == Append(q, x)

DequeAppendDropNewest(q, x, maxlen) ==
    IF maxlen = 0 THEN q
    ELSE IF Len(q) >= maxlen THEN Append(SubSeq(q, 1, Len(q) - 1), x)
    ELSE Append(q, x)

DequeAppend(q, x, maxlen) ==
    IF maxlen = 0 THEN q
    ELSE IF Len(q) >= maxlen THEN Append(Tail(q), x)
    ELSE Append(q, x)

\* ------------------------------------------------------------------------
\* Freshness filter
\* ------------------------------------------------------------------------
Article(link, pubDate) == [link |-> link, pubDate |-> pubDate]

RecordUrlNever(cache, article_url) == cache

\* Recording without the truthiness test on the link.
RecordUrlEvenEmpty(cache, article_url) ==
    IF ~InDeque(article_url, cache)
    THEN DequeAppend(cache, article_url, deque_maxlen)
    ELSE cache

\* Lines 139-141 and 115-116: record a truthy link that is not cached yet.
RecordUrl(cache, article_url) ==
    IF article_url # "" /\ ~InDeque(article_url, cache)
    THEN DequeAppend(cache, article_url, deque_maxlen)
    ELSE cache

\* Variants of _should_include_article with one slip each: recording the link
\* of an item that passed the comparison, comparing with >=, and recording
\* every included item when there is no last run.
should_include_article_caching(article, last_run_utc, cache) ==
    LET article_date == parse_date(article.pubDate) IN
    IF parse_date_raises(article.pubDate)
       \/ (last_run_utc # None /\ article_date.some /\ normalize_raises(article_date))
    THEN [raised |-> TRUE, include |-> FALSE, cache |-> cache]
    ELSE IF last_run_utc # None /\ article_date.some
    THEN LET newer == normalize_datetime_to_utc_naive(article_date) > The(last_run_utc)
         IN [raised |-> FALSE, include |-> newer,
             cache |-> IF newer THEN RecordUrl(cache, article.link) ELSE cache]
    ELSE [raised |-> FALSE, include |-> TRUE,
          cache |-> IF ~article_date.some THEN RecordUrl(cache, article.link) ELSE cache]

should_include_article_ge(article, last_run_utc, cache) ==
    LET article_date == parse_date(article.pubDate) IN
    IF parse_date_raises(article.pubDate)
       \/ (last_run_utc # None /\ article_date.some /\ normalize_raises(article_date))
    THEN [raised |-> TRUE, include |-> FALSE, cache |-> cache]
    ELSE IF last_run_utc # None /\ article_date.some
    THEN [raised |-> FALSE,
          include |-> normalize_datetime_to_utc_naive(article_date) >= The(last_run_utc),
          cache |-> cache]
    ELSE [raised |-> FALSE, include |-> TRUE,
          cache |-> IF ~article_date.some THEN RecordUrl(cache, article.link) ELSE cache]

should_include_article_first_run_caching(article, last_run_utc, cache) ==
    LET article_date == parse_date(article.pubDate) IN
    IF parse_date_raises(article.pubDate)
       \/ (last_run_utc # None /\ article_date.some /\ normalize_raises(article_date))
    THEN [raised |-> TRUE, include |-> FALSE, cache |-> cache]
    ELSE IF last_run_utc # None /\ article_date.some
    THEN [raised |-> FALSE,
          include |-> normalize_datetime_to_utc_naive(article_date) > The(last_run_utc),
          cache |-> cache]
    ELSE [raised |-> FALSE, include |-> TRUE,
          cache |-> RecordUrl(cache, article.link)]

\* _should_include_article: [raised, include, cache].
should_include_article(article, last_run_utc, cache) ==
    IF parse_date_raises(article.pubDate)
    THEN [raised |-> TRUE, include |-> FALSE, cache |-> cache]
    ELSE LET article_date == parse_date(article.pubDate) IN
         IF last_run_utc # None /\ article_date.some
         THEN IF normalize_raises(article_date)
              THEN [raised |-> TRUE, include |-> FALSE, cache |-> cache]
              ELSE [raised  |-> FALSE,
                    include |-> normalize_datetime_to_utc_naive(article_date)
                                    > The(last_run_utc),
                    cache   |-> cache]
         ELSE [raised  |-> FALSE,
               include |-> TRUE,
               cache   |-> IF ~article_date.some
                           THEN RecordUrl(cache, article.link)
                           ELSE cache]

\* The loop iteration with a cache hit moving the link to the newest place.
FilterStepRefreshOnHit(article, last_run_utc, cache) ==
    IF article.link # "" /\ InDeque(article.link, cache)
    THEN [include |-> FALSE,
          cache |-> Append(SelectSeq(cache, LAMBDA x : x # article.link),
                           article.link)]
    ELSE LET r == should_include_article(article, last_run_utc, cache) IN
         IF r.raised
         THEN [include |-> TRUE, cache |-> RecordUrl(cache, article.link)]
         ELSE [include |-> r.include, cache |-> r.cache]

\* The loop iteration with the except branch dropping the article.
FilterStepDropOnError(article, last_run_utc, cache) ==
    IF article.link # "" /\ InDeque(article.link, cache)
    THEN [include |-> FALSE, cache |-> cache]
    ELSE LET r == should_include_article(article, last_run_utc, cache) IN
         IF r.raised
         THEN [include |-> FALSE, cache |-> RecordUrl(cache, article.link)]
         ELSE [include |-> r.include, cache |-> r.cache]

\* The loop iteration with a cache hit recording the link once more.
FilterStepRecordOnHit(article, last_run_utc, cache) ==
    IF article.link # "" /\ InDeque(article.link, cache)
    THEN [include |-> FALSE,
          cache |-> DequeAppend(cache, article.link, deque_maxlen)]
    ELSE LET r == should_include_article(article, last_run_utc, cache) IN
         IF r.raised
         THEN [include |-> TRUE, cache |-> RecordUrl(cache, article.link)]
         ELSE [include |-> r.include, cache |-> r.cache]

\* One iteration of the loop of _filter_articles_by_timestamp (lines 103-117):
\* [include, cache] for one article.
FilterStep(article, last_run_utc, cache) ==
    IF article.link # "" /\ InDeque(article.link, cache)
    THEN [include |-> FALSE, cache |-> cache]
    ELSE LET r == should_include_article(article, last_run_utc, cache) IN
         IF r.raised
         THEN [include |-> TRUE, cache |-> RecordUrl(cache, article.link)]
         ELSE [include |-> r.include, cache |-> r.cache]

\* The loop putting each included article in front of the earlier ones.
RECURSIVE FilterLoopPrepending(_, _, _, _, _)
FilterLoopPrepending(arts, last_run_utc, cache, filtered, included) ==
    IF arts = <<>>
    THEN [filtered_articles |-> filtered, included |-> included, cache |-> cache]
    ELSE LET r == FilterStep(Head(arts), last_run_utc, cache) IN
         FilterLoopPrepending(Tail(arts), last_run_utc, r.cache,
                              IF r.include THEN <<Head(arts)>> \o filtered
                              ELSE filtered,
                              Append(included, r.include))

\* The loop of _filter_articles_by_timestamp (lines 100-123).
RECURSIVE FilterLoop(_, _, _, _, _)
FilterLoop(arts, last_run_utc, cache, filtered, included) ==
    IF arts = <<>>
    THEN [filtered_articles |-> filtered, included |-> included, cache |-> cache]
    ELSE LET r == FilterStep(Head(arts), last_run_utc, cache) IN
         FilterLoop(Tail(arts), last_run_utc, r.cache,
                    IF r.include THEN Append(filtered, Head(arts)) ELSE filtered,
                    Append(included, r.include))

\* _filter_articles_by_timestamp: the returned list, the cache afterwards and,
\* for the properties, which positions of the batch were returned.
filter_articles_by_timestamp(arts, last_run_timestamp, cache) ==
    FilterLoop(arts, parse_iso_timestamp(last_run_timestamp), cache, <<>>, <<>>)

\* ------------------------------------------------------------------------
\* Cron schedules and the delivery pass, as the daemon sees them
\* ------------------------------------------------------------------------
\* A cron expression: invalid text, or one that matches the instants x with
\* x % period = offset.
CronExpr(period, offset) == [valid |-> TRUE, period |-> period, offset |-> offset]

InvalidCron == [valid |-> FALSE, period |-> 1, offset |-> 0]

\* get_next taking a match at t itself.
get_next_inclusive(cron, t) ==
    CHOOSE x \in t..(t + cron.period - 1) : x % cron.period = cron.offset

\* croniter.get_next after set_current(t): the first match strictly after t.
get_next(cron, t) ==
    CHOOSE x \in (t + 1)..(t + cron.period) : x % cron.period = cron.offset

SeqMaxInstead(xs) ==
    CHOOSE m \in {xs[i] : i \in 1..Len(xs)} : \A i \in 1..Len(xs) : m >= xs[i]

SeqMin(xs) ==
    CHOOSE m \in {xs[i] : i \in 1..Len(xs)} : \A i \in 1..Len(xs) : m <= xs[i]

\* _get_next_run_time: min over the schedules; min([]) raises ValueError.
get_next_run_time_raises(cs) == cs = <<>>

get_next_run_time(cs, t) == SeqMin([i \in 1..Len(cs) |-> get_next(cs[i], t)])

\* config.sources
Sources == <<"s1", "s2">>

\* What process_source gave for one source of a pass: it raised, it returned
\* no article, or it returned some.
ProcessOutcomes == {"raise", "none", "some"}

\* send_newsletter_to_user, by how it ends; it returns True only as "sent".
send_newsletter_to_user(sources, results, render_raises, send_raises) ==
    IF sources = <<>> THEN "no_sources"
    ELSE IF \A i \in 1..Len(sources) : results[i] # "some" THEN "no_articles"
    ELSE IF render_raises THEN "render_error"
    ELSE IF send_raises THEN "send_error"
    ELSE "sent"

\* ------------------------------------------------------------------------
\* Source run tracker: Database, table source_metadata
\* ------------------------------------------------------------------------
SourceUrls == {Sources[i] : i \in 1..Len(Sources)}

\* A row of the table, or its absence.
NoRow == [present |-> FALSE, last_successful_run |-> None]

Row(last_successful_run) ==
    [present |-> TRUE, last_successful_run |-> last_successful_run]

\* add_source as INSERT OR REPLACE: the row is written anew.
add_source_replacing(table, url) == [table EXCEPT ![url] = Row(None)]

\* INSERT ... VALUES (?, NULL); an existing row raises IntegrityError, ignored.
add_source(table, url) ==
    IF table[url].present THEN table ELSE [table EXCEPT ![url] = Row(None)]

update_source_last_run_lost(table, url, timestamp) == table

\* UPDATE ... SET last_successful_run = ? WHERE url = ?
update_source_last_run(table, url, timestamp) ==
    IF table[url].present
    THEN [table EXCEPT ![url] = Row(Some(timestamp))]
    ELSE table

get_source_by_url_miss(table, url) == None

\* SELECT * ... WHERE url = ?: the row as Optional.
get_source_by_url(table, url) ==
    IF table[url].present THEN Some(table[url]) ELSE None

\* ------------------------------------------------------------------------
\* State
\* ------------------------------------------------------------------------
VARIABLES
    non_dated_processed_urls,  \* ContentProcessor.non_dated_processed_urls
    pc,                        \* where the caller of the filter is
    articles,                  \* the batch of the last filter call
    last_run_timestamp,        \* its last_run_timestamp argument
    cache0,                    \* the cache when that call started
    filtered_articles,         \* what the call returned
    included,                  \* per position of the batch: returned or not
    source_metadata,           \* Database: the source_metadata table
    source_url,                \* the source of the last process_source call
    tracked,                   \* one item an earlier pass returned, if any
    now,                       \* the wall clock, datetime.now()
    frequencies,               \* config.frequencies
    crons,                     \* NewsletterDaemon.crons
    dpc,                       \* where the daemon is
    next_run_time,             \* run(): next_run_time
    current_time,              \* run(): current_time
    computed,                  \* fire times computed so far
    wakeups,                   \* returns of time.sleep so far
    calls,                     \* calls of send_newsletter_to_user so far
    returns,                   \* returns of send_newsletter_to_user so far
    last_pass,                 \* how the last delivery pass ended
    spc,                       \* where the caller of the service is
    pass_sources,              \* send_newsletter_to_user: the sources argument
    outcomes,                  \* what process_source did for each of them
    processed,                 \* the urls process_source was called with, in order
    articles_by_source,        \* what _collect_articles_from_sources returned
    rendered,                  \* calls of generate_newsletter in the pass
    emails,                    \* calls of send_email in the pass
    pass_result,               \* what send_newsletter_to_user returned
    max_articles_per_source,   \* NewsletterService.max_articles_per_source
    smtp_pc,                   \* where send_email is
    server,                    \* send_email: server
    quit_calls,                \* calls of server.quit() in the attempt
    failed_step,               \* the call of the attempt that raised, if any
    attempts,                  \* calls of send_email so far
    delivered,                 \* send_message calls that returned so far
    mpc,                       \* where main() is
    args,                      \* main(): args, the parsed command line
    ran,                       \* what main() called after parsing, in order
    ended_by,                  \* how the last of these calls ended
    exit_code,                 \* what main() returned
    extracted_at,              \* when the last successful pass extracted its batch
    prev_extracted_at          \* when the successful pass before it did

procVars == <<non_dated_processed_urls, pc, articles, last_run_timestamp, cache0,
              filtered_articles, included, source_metadata, source_url, tracked,
              deque_maxlen>>

daemonVars == <<frequencies, crons, dpc, next_run_time, current_time, computed,
                wakeups, calls, returns, last_pass>>

serviceVars == <<spc, pass_sources, outcomes, processed, articles_by_source,
                 rendered, emails, pass_result, max_articles_per_source>>

senderVars == <<smtp_pc, server, quit_calls, failed_step, attempts, delivered>>

mainVars == <<mpc, args, ran, ended_by, exit_code>>

raceVars == <<extracted_at, prev_extracted_at>>

\* What the processor, the daemon and the service do not touch.
otherVars == <<senderVars, mainVars, raceVars>>

vars == <<procVars, now, daemonVars, serviceVars, otherVars>>

\* ------------------------------------------------------------------------
\* Direct calls of the filter (SpecFilter)
\* ------------------------------------------------------------------------
\* "" stands for every falsy link (empty, None).
Links == {"", "a", "b", "c"}

FilterPubDates ==
    {EmptyDate, GarbageDate, NonStrDate,
     PubDate("space", 1, 0), PubDate("space", 2, 0),
     PubDate("iso_off", 1, 1), PubDate("iso_off", 0, 1)}

FilterArticles == {Article(l, d) : l \in Links, d \in FilterPubDates}

SeqsUpTo(S, n) == UNION {[1..k -> S] : k \in 0..n}

FilterBatches == SeqsUpTo(FilterArticles, MaxBatch)

FilterLastRuns == {None, Some(1)}

\* Config.max_articles_per_source, its default.
DefaultMaxArticlesPerSource == 3

InitProcIdle ==
    /\ non_dated_processed_urls = <<>>
    /\ pc = "idle"
    /\ articles = <<>>
    /\ last_run_timestamp = None
    /\ cache0 = <<>>
    /\ filtered_articles = <<>>
    /\ included = <<>>
    /\ source_metadata = [s \in SourceUrls |-> NoRow]
    /\ source_url = ""
    /\ tracked = {}
    /\ deque_maxlen = max_fallback_urls

InitDaemonIdle ==
    /\ frequencies = <<>>
    /\ crons = <<>>
    /\ dpc = "off"
    /\ next_run_time = 0
    /\ current_time = 0
    /\ computed = 0
    /\ wakeups = 0
    /\ calls = 0
    /\ returns = 0
    /\ last_pass = "none"

InitServiceIdle ==
    /\ spc = "idle"
    /\ pass_sources = <<>>
    /\ outcomes = <<>>
    /\ processed = <<>>
    /\ articles_by_source = <<>>
    /\ rendered = 0
    /\ emails = 0
    /\ pass_result = FALSE
    /\ max_articles_per_source = DefaultMaxArticlesPerSource

InitSenderIdle ==
    /\ smtp_pc = "idle"
    /\ server = None
    /\ quit_calls = 0
    /\ failed_step = "none"
    /\ attempts = 0
    /\ delivered = 0

\* parse_arguments: the defaults of the three maintenance flags.
Args(clear_all_cache, clear_cache_keys, init_db) ==
    [clear_all_cache |-> clear_all_cache, clear_cache_keys |-> clear_cache_keys,
     init_db |-> init_db]

InitMainIdle ==
    /\ mpc = "start"
    /\ args = Args(FALSE, None, FALSE)
    /\ ran = <<>>
    /\ ended_by = "none"
    /\ exit_code = None

InitRaceIdle ==
    /\ extracted_at = None
    /\ prev_extracted_at = None

InitOthersIdle == InitSenderIdle /\ InitMainIdle /\ InitRaceIdle

InitFilter == InitProcIdle /\ now = 0 /\ InitDaemonIdle /\ InitServiceIdle /\ InitOthersIdle

\* A call _filter_articles_by_timestamp(batch, lr) for some batch and lr of
\* the given sets.
FilterCallOn(batches, last_runs) ==
    /\ pc = "idle"
    /\ \E batch \in batches, lr \in last_runs :
         LET r == filter_articles_by_timestamp(batch, lr, non_dated_processed_urls) IN
         /\ articles' = batch
         /\ last_run_timestamp' = lr
         /\ cache0' = non_dated_processed_urls
         /\ non_dated_processed_urls' = r.cache
         /\ filtered_articles' = r.filtered_articles
         /\ included' = r.included
    /\ pc' = "returned"
    /\ UNCHANGED <<source_metadata, source_url, tracked, deque_maxlen, now, daemonVars,
                   serviceVars, otherVars>>

FilterCall == FilterCallOn(FilterBatches, FilterLastRuns)

FilterReturn ==
    /\ pc = "returned"
    /\ pc' = "idle"
    /\ articles' = <<>>
    /\ last_run_timestamp' = None
    /\ cache0' = <<>>
    /\ filtered_articles' = <<>>
    /\ included' = <<>>
    /\ UNCHANGED <<non_dated_processed_urls, source_metadata, source_url,
                   tracked, deque_maxlen, now, daemonVars, serviceVars, otherVars>>

NextFilter == FilterCall \/ FilterReturn

SpecFilter == InitFilter /\ [][NextFilter]_vars

\* ------------------------------------------------------------------------
\* Construction of the processor with any capacity (SpecConstruct)
\* ------------------------------------------------------------------------
\* The max_fallback_urls argument: negative, zero or positive.
ConstructorCapacities == (-1)..max_fallback_urls

InitConstruct ==
    /\ non_dated_processed_urls = <<>>
    /\ pc = "new"
    /\ articles = <<>>
    /\ last_run_timestamp = None
    /\ cache0 = <<>>
    /\ filtered_articles = <<>>
    /\ included = <<>>
    /\ source_metadata = [s \in SourceUrls |-> NoRow]
    /\ source_url = ""
    /\ tracked = {}
    /\ deque_maxlen \in ConstructorCapacities
    /\ now = 0
    /\ InitDaemonIdle
    /\ InitServiceIdle /\ InitOthersIdle

\* ContentProcessor.__init__, line 44: deque(maxlen=...) raises ValueError on
\* a negative maxlen and accepts every other one, 0 included.
ConstructProcessor ==
    /\ pc = "new"
    /\ pc' = IF deque_maxlen < 0 THEN "init_failed" ELSE "idle"
    /\ UNCHANGED <<non_dated_processed_urls, articles, last_run_timestamp, cache0,
                   filtered_articles, included, source_metadata, source_url,
                   tracked, deque_maxlen, now, daemonVars, serviceVars, otherVars>>

NextConstruct == ConstructProcessor \/ FilterCall \/ FilterReturn

SpecConstruct == InitConstruct /\ [][NextConstruct]_vars

\* ------------------------------------------------------------------------
\* The filter run twice on one batch (SpecRerun)
\* ------------------------------------------------------------------------
RerunLinks == {"", "a", "b"}

RerunPubDates ==
    {EmptyDate, NonStrDate, PubDate("space", 1, 0), PubDate("space", 2, 0),
     PubDate("iso_off", 0, 1)}

RerunBatches ==
    SeqsUpTo({Article(l, d) : l \in RerunLinks, d \in RerunPubDates}, MaxBatch)

\* A first call of _filter_articles_by_timestamp.
FirstCall == FilterCallOn(RerunBatches, FilterLastRuns)

\* The second call carrying over the cache the first call left.
FilterAgainCarryingCache ==
    /\ pc = "returned"
    /\ LET r == filter_articles_by_timestamp(articles, last_run_timestamp,
                                             non_dated_processed_urls) IN
         /\ non_dated_processed_urls' = r.cache
         /\ filtered_articles' = r.filtered_articles
         /\ included' = r.included
    /\ pc' = "rerun"
    /\ UNCHANGED <<articles, last_run_timestamp, cache0, source_metadata, source_url,
                   tracked, deque_maxlen, now, daemonVars, serviceVars, otherVars>>

\* A second call of _filter_articles_by_timestamp with the same batch and
\* last_run_timestamp, on a processor whose cache is what it was when the
\* first call started.
FilterAgain ==
    /\ pc = "returned"
    /\ LET r == filter_articles_by_timestamp(articles, last_run_timestamp, cache0) IN
         /\ non_dated_processed_urls' = r.cache
         /\ filtered_articles' = r.filtered_articles
         /\ included' = r.included
    /\ pc' = "rerun"
    /\ UNCHANGED <<articles, last_run_timestamp, cache0, source_metadata, source_url,
                   tracked, deque_maxlen, now, daemonVars, serviceVars, otherVars>>

\* The caller is done with both results; the processor goes on with its cache.
RerunReturn ==
    /\ pc = "rerun"
    /\ pc' = "idle"
    /\ articles' = <<>>
    /\ last_run_timestamp' = None
    /\ cache0' = <<>>
    /\ filtered_articles' = <<>>
    /\ included' = <<>>
    /\ UNCHANGED <<non_dated_processed_urls, source_metadata, source_url, tracked,
                   deque_maxlen, now, daemonVars, serviceVars, otherVars>>

NextRerun == FirstCall \/ FilterAgain \/ RerunReturn

SpecRerun == InitFilter /\ [][NextRerun]_vars

\* ------------------------------------------------------------------------
\* Two dated items against one lastRun (SpecDates)
\* ------------------------------------------------------------------------
\* The UTC offsets a pubDate may show.
Offsets == {-1, 0, 1}

\* Every dated pubDate: the two %z formats with any offset, "%Z" with the
\* name of a zone of any offset (strptime accepts GMT, UTC and the names of
\* the local zone), the literal Z and the format without zone.
DatedPubDates ==
    {PubDate(f, w, o) : f \in {"rfc822_name", "rfc822_off", "iso_off"},
                        w \in Times, o \in Offsets}
    \cup {PubDate(f, w, 0) : f \in {"iso_z", "space"}, w \in Times}

DatePairs ==
    {<<Article("a", d1), Article("b", d2)>> : d1 \in DatedPubDates, d2 \in DatedPubDates}

DateLastRuns == {None} \cup {Some(t) : t \in Times}

DatesCall == FilterCallOn(DatePairs, DateLastRuns)

NextDates == DatesCall \/ FilterReturn

SpecDates == InitFilter /\ [][NextDates]_vars

\* ------------------------------------------------------------------------
\* The daemon (SpecDaemon)
\* ------------------------------------------------------------------------
EveryInstant == CronExpr(1, 0)

EverySecond == CronExpr(2, 0)

EveryThird == CronExpr(3, 0)

FrequencyConfigs ==
    {<<EverySecond, EveryThird>>, <<EveryInstant>>, <<EveryThird, EverySecond>>,
     <<EverySecond, InvalidCron>>, <<InvalidCron>>, <<>>}

InitDaemon ==
    /\ InitProcIdle
    /\ InitServiceIdle /\ InitOthersIdle
    /\ now = 0
    /\ frequencies \in FrequencyConfigs
    /\ crons = <<>>
    /\ dpc = "new"
    /\ next_run_time = 0
    /\ current_time = 0
    /\ computed = 0
    /\ wakeups = 0
    /\ calls = 0
    /\ returns = 0
    /\ last_pass = "none"

\* datetime.now() moves on, whatever the daemon is doing.
\* Time passing with a timeout that abandons a dispatch one instant after its
\* fire time.
TickWithDispatchTimeout ==
    /\ now < MaxTime
    /\ now' = now + 1
    /\ dpc' = IF dpc = "dispatching" /\ now + 1 > next_run_time + 1
              THEN "run" ELSE dpc
    /\ UNCHANGED <<procVars, serviceVars, otherVars, frequencies, crons, next_run_time,
                   current_time, computed, wakeups, calls, returns, last_pass>>

Tick ==
    /\ now < MaxTime
    /\ now' = now + 1
    /\ UNCHANGED <<procVars, daemonVars, serviceVars, otherVars>>

\* The constructor keeping the expressions that parse and going on.
ConstructKeepingValid ==
    /\ dpc = "new"
    /\ crons' = SelectSeq(frequencies, LAMBDA f : f.valid)
    /\ dpc' = "run"
    /\ UNCHANGED <<procVars, serviceVars, otherVars, now, frequencies, next_run_time,
                   current_time, computed, wakeups, calls, returns, last_pass>>

\* NewsletterDaemon.__init__: one croniter per frequency, the first invalid
\* expression raises and no daemon exists.
Construct ==
    /\ dpc = "new"
    /\ IF \E i \in 1..Len(frequencies) : ~frequencies[i].valid
       THEN LET bad == CHOOSE i \in 1..Len(frequencies) :
                          /\ ~frequencies[i].valid
                          /\ \A j \in 1..(i - 1) : frequencies[j].valid
            IN /\ crons' = SubSeq(frequencies, 1, bad - 1)
               /\ dpc' = "init_failed"
       ELSE /\ crons' = frequencies
            /\ dpc' = "run"
    /\ UNCHANGED <<procVars, serviceVars, otherVars, now, frequencies, next_run_time, current_time,
                   computed, wakeups, calls, returns, last_pass>>

\* The loop taking the next fire after the previous fire time, not after now.
GetNextRunTimeFromPreviousFire ==
    /\ dpc = "run"
    /\ IF get_next_run_time_raises(crons)
       THEN /\ dpc' = "crashed"
            /\ UNCHANGED <<next_run_time, computed>>
       ELSE /\ next_run_time' = get_next_run_time(crons, next_run_time)
            /\ computed' = computed + 1
            /\ dpc' = "computed"
    /\ UNCHANGED <<procVars, serviceVars, otherVars, now, frequencies, crons, current_time,
                   wakeups, calls, returns, last_pass>>

\* The loop with min(next_times, default=...): with no schedule the next fire
\* is the next instant.
GetNextRunTimeDefaulting ==
    /\ dpc = "run"
    /\ IF get_next_run_time_raises(crons)
       THEN /\ next_run_time' = now + 1
            /\ computed' = computed + 1
            /\ dpc' = "computed"
       ELSE /\ next_run_time' = get_next_run_time(crons, now)
            /\ computed' = computed + 1
            /\ dpc' = "computed"
    /\ UNCHANGED <<procVars, serviceVars, otherVars, now, frequencies, crons, current_time,
                   wakeups, calls, returns, last_pass>>

\* run(), line 38: next_run_time = self._get_next_run_time()
GetNextRunTime ==
    /\ dpc = "run"
    /\ IF get_next_run_time_raises(crons)
       THEN /\ dpc' = "crashed"
            /\ UNCHANGED <<next_run_time, computed>>
       ELSE /\ next_run_time' = get_next_run_time(crons, now)
            /\ computed' = computed + 1
            /\ dpc' = "computed"
    /\ UNCHANGED <<procVars, serviceVars, otherVars, now, frequencies, crons, current_time, wakeups,
                   calls, returns, last_pass>>

\* run(), lines 39-41: current_time = datetime.now(), then time.sleep of the
\* difference; time.sleep raises ValueError on a negative length.
SleepUntilNextRun ==
    /\ dpc = "computed"
    /\ current_time' = now
    /\ dpc' = IF next_run_time - now < 0 THEN "crashed" ELSE "sleeping"
    /\ UNCHANGED <<procVars, serviceVars, otherVars, now, frequencies, crons, next_run_time, computed,
                   wakeups, calls, returns, last_pass>>

\* time.sleep returns once the requested length has passed.
WakeUp ==
    /\ dpc = "sleeping"
    /\ now - current_time >= next_run_time - current_time
    /\ wakeups' = wakeups + 1
    /\ dpc' = "awake"
    /\ UNCHANGED <<procVars, serviceVars, otherVars, now, frequencies, crons, next_run_time,
                   current_time, computed, calls, returns, last_pass>>

\* run(), lines 42-44: the call of send_newsletter_to_user.
CallSend ==
    /\ dpc = "awake"
    /\ calls' = calls + 1
    /\ dpc' = "dispatching"
    /\ UNCHANGED <<procVars, serviceVars, otherVars, now, frequencies, crons, next_run_time,
                   current_time, computed, wakeups, returns, last_pass>>

\* The return of send_newsletter_to_user leading straight to another call.
SendReturnsAndCallsAgain ==
    /\ dpc = "dispatching"
    /\ \E results \in [1..Len(Sources) -> ProcessOutcomes],
          render_raises \in BOOLEAN, send_raises \in BOOLEAN :
         last_pass' = send_newsletter_to_user(Sources, results, render_raises,
                                              send_raises)
    /\ returns' = returns + 1
    /\ dpc' = "awake"
    /\ UNCHANGED <<procVars, serviceVars, otherVars, now, frequencies, crons, next_run_time,
                   current_time, computed, wakeups, calls>>

\* send_newsletter_to_user returns, however the pass went; the loop goes on.
SendReturns ==
    /\ dpc = "dispatching"
    /\ \E results \in [1..Len(Sources) -> ProcessOutcomes],
          render_raises \in BOOLEAN, send_raises \in BOOLEAN :
         last_pass' = send_newsletter_to_user(Sources, results, render_raises,
                                              send_raises)
    /\ returns' = returns + 1
    /\ dpc' = "run"
    /\ UNCHANGED <<procVars, serviceVars, otherVars, now, frequencies, crons, next_run_time,
                   current_time, computed, wakeups, calls>>

NextDaemon ==
    \/ Tick
    \/ Construct
    \/ GetNextRunTime
    \/ SleepUntilNextRun
    \/ WakeUp
    \/ CallSend
    \/ SendReturns

SpecDaemon == InitDaemon /\ [][NextDaemon]_vars

\* ------------------------------------------------------------------------
\* The next fire time, at any instant of a week (SpecCron)
\* ------------------------------------------------------------------------
\* Instants are hours here, 0 being Monday 00:00.
MaxInstant == 170

Daily0800 == CronExpr(24, 8)

Sunday0900 == CronExpr(7 * 24, 6 * 24 + 9)

Saturday0700 == 5 * 24 + 7

Saturday0800 == 5 * 24 + 8

CronConfigs ==
    {<<Daily0800, Sunday0900>>, <<Sunday0900, Daily0800>>, <<Daily0800>>,
     <<Sunday0900>>, <<EverySecond, EveryThird>>, <<Daily0800, Daily0800>>}

\* A constructed daemon about to compute its next fire time.
InitCron ==
    /\ InitProcIdle
    /\ InitServiceIdle /\ InitOthersIdle
    /\ now \in 0..MaxInstant
    /\ frequencies \in CronConfigs
    /\ crons = frequencies
    /\ dpc = "run"
    /\ next_run_time = 0
    /\ current_time = 0
    /\ computed = 0
    /\ wakeups = 0
    /\ calls = 0
    /\ returns = 0
    /\ last_pass = "none"

NextCron == GetNextRunTime

SpecCron == InitCron /\ [][NextCron]_vars

\* ------------------------------------------------------------------------
\* Passes over the sources (Spec)
\* ------------------------------------------------------------------------
\* What the extractor returns: ContentItem.link has min_length 1 and pubDate
\* is a string.
FeedLinks == {"a", "b", "c"}

FeedPubDates == {EmptyDate, PubDate("space", 1, 0), PubDate("space", 2, 0)}

FeedArticles == {Article(l, d) : l \in FeedLinks, d \in FeedPubDates}

\* ContentFeed.items has min_length 1.
Feeds == SeqsUpTo(FeedArticles, MaxFeed) \ {<<>>}

\* The sources the passes of Spec process.
PassUrls == {Sources[1]}

Init == InitProcIdle /\ now = 0 /\ InitDaemonIdle /\ InitServiceIdle /\ InitOthersIdle

\* process_source for a source other than the first filtering against a cache
\* of its own.
ProcessSourceOwnCache(url, feed, elapsed) ==
    /\ pc = "idle"
    /\ now + elapsed <= MaxTime
    /\ LET existing_source == get_source_by_url(source_metadata, url)
           last_run == IF existing_source # None
                       THEN The(existing_source).last_successful_run
                       ELSE None
           r == filter_articles_by_timestamp(
                  feed, last_run,
                  IF url = Sources[1] THEN non_dated_processed_urls ELSE <<>>)
       IN /\ articles' = feed
          /\ last_run_timestamp' = last_run
          /\ cache0' = non_dated_processed_urls
          /\ non_dated_processed_urls' =
               IF url = Sources[1] THEN r.cache ELSE non_dated_processed_urls
          /\ filtered_articles' = r.filtered_articles
          /\ included' = r.included
          /\ source_metadata' =
               update_source_last_run(add_source(source_metadata, url), url,
                                      now + elapsed)
    /\ now' = now + elapsed
    /\ source_url' = url
    /\ pc' = "returned"
    /\ UNCHANGED <<tracked, deque_maxlen, daemonVars, serviceVars, otherVars>>

\* process_source writing the marker first and filtering against it.
ProcessSourceMarkerFirst(url, feed, elapsed) ==
    /\ pc = "idle"
    /\ now + elapsed <= MaxTime
    /\ LET last_run == Some(now + elapsed)
           r == filter_articles_by_timestamp(feed, last_run,
                                             non_dated_processed_urls)
       IN /\ articles' = feed
          /\ last_run_timestamp' = last_run
          /\ cache0' = non_dated_processed_urls
          /\ non_dated_processed_urls' = r.cache
          /\ filtered_articles' = r.filtered_articles
          /\ included' = r.included
          /\ source_metadata' =
               update_source_last_run(add_source(source_metadata, url), url,
                                      now + elapsed)
    /\ now' = now + elapsed
    /\ source_url' = url
    /\ pc' = "returned"
    /\ UNCHANGED <<tracked, deque_maxlen, daemonVars, serviceVars, otherVars>>

\* process_source recording as marker the time of the newest item it saw.
ProcessSourceCallMarkerFromItems(url, feed, elapsed) ==
    /\ pc = "idle"
    /\ now + elapsed <= MaxTime
    /\ LET existing_source == get_source_by_url(source_metadata, url)
           last_run == IF existing_source # None
                       THEN The(existing_source).last_successful_run
                       ELSE None
           r == filter_articles_by_timestamp(feed, last_run,
                                             non_dated_processed_urls)
       IN /\ articles' = feed
          /\ last_run_timestamp' = last_run
          /\ cache0' = non_dated_processed_urls
          /\ non_dated_processed_urls' = r.cache
          /\ filtered_articles' = r.filtered_articles
          /\ included' = r.included
          /\ source_metadata' =
               update_source_last_run(add_source(source_metadata, url), url,
                                      feed[Len(feed)].pubDate.wall)
    /\ now' = now + elapsed
    /\ source_url' = url
    /\ pc' = "returned"

\* process_source, lines 61-83, for a feed the extractor returns; elapsed is
\* the time that passes between the call and datetime.now() of line 79.
ProcessSourceCall(url, feed, elapsed) ==
    /\ pc = "idle"
    /\ now + elapsed <= MaxTime
    /\ LET existing_source == get_source_by_url(source_metadata, url)
           last_run == IF existing_source # None
                       THEN The(existing_source).last_successful_run
                       ELSE None
           r == filter_articles_by_timestamp(feed, last_run,
                                             non_dated_processed_urls)
       IN /\ articles' = feed
          /\ last_run_timestamp' = last_run
          /\ cache0' = non_dated_processed_urls
          /\ non_dated_processed_urls' = r.cache
          /\ filtered_articles' = r.filtered_articles
          /\ included' = r.included
          /\ source_metadata' =
               update_source_last_run(add_source(source_metadata, url), url,
                                      now + elapsed)
    /\ now' = now + elapsed
    /\ source_url' = url
    /\ pc' = "returned"

ProcessSource(url, feed, elapsed) ==
    /\ ProcessSourceCall(url, feed, elapsed)
    /\ UNCHANGED <<tracked, deque_maxlen, daemonVars, serviceVars, otherVars>>

\* The failing call registering the source before the error gets out.
ExtractFailsAfterRegistering(url) ==
    /\ pc = "idle"
    /\ source_url' = url
    /\ pc' = "raised"
    /\ source_metadata' = add_source(source_metadata, url)
    /\ UNCHANGED <<non_dated_processed_urls, articles, last_run_timestamp, cache0,
                   filtered_articles, included, tracked, deque_maxlen, now,
                   daemonVars, serviceVars, otherVars>>

\* process_source when hiku_extractor.extract raises: the error propagates.
ExtractFails(url) ==
    /\ pc = "idle"
    /\ source_url' = url
    /\ pc' = "raised"
    /\ UNCHANGED <<non_dated_processed_urls, articles, last_run_timestamp, cache0,
                   filtered_articles, included, source_metadata, tracked, deque_maxlen,
                   now, daemonVars, serviceVars, otherVars>>

\* Whether a date parses and normalizes to an instant at or before t.
DatedAtOrBefore(pubDate, t) ==
    /\ ~parse_date_raises(pubDate)
    /\ parse_date(pubDate).some
    /\ ~normalize_raises(parse_date(pubDate))
    /\ normalize_datetime_to_utc_naive(parse_date(pubDate)) <= t

\* The caller takes the result.  From here on one returned item may be
\* followed: tracked remembers its source, the item, and whether its
\* timestamp was at or before the marker that pass recorded.
Return ==
    /\ pc \in {"returned", "raised"}
    /\ \/ UNCHANGED tracked
       \/ /\ tracked = {}
          /\ pc = "returned"
          /\ \E i \in 1..Len(filtered_articles) :
               tracked' =
                 {[url     |-> source_url,
                   article |-> filtered_articles[i],
                   settled |-> DatedAtOrBefore(
                                 filtered_articles[i].pubDate,
                                 The(source_metadata[source_url].last_successful_run))]}
    /\ pc' = "idle"
    /\ articles' = <<>>
    /\ last_run_timestamp' = None
    /\ cache0' = <<>>
    /\ filtered_articles' = <<>>
    /\ included' = <<>>
    /\ source_url' = ""
    /\ UNCHANGED <<non_dated_processed_urls, source_metadata, deque_maxlen, now,
                   daemonVars, serviceVars, otherVars>>

Next ==
    \/ \E url \in PassUrls, feed \in Feeds, elapsed \in {0, 1} :
         ProcessSource(url, feed, elapsed)
    \/ \E url \in PassUrls : ExtractFails(url)
    \/ Return
    \/ Tick

Spec == Init /\ [][Next]_vars

\* ------------------------------------------------------------------------
\* Passes with the times of their extractions (SpecRace)
\* ------------------------------------------------------------------------
\* Dated items with distinct links; a feed shows no item published after its
\* extraction.
RaceArticles(t) == {Article(l, PubDate("space", d, 0)) : l \in FeedLinks, d \in 0..t}

RaceFeeds(t) == SeqsUpTo(RaceArticles(t), MaxFeed) \ {<<>>}

\* process_source: the extraction of line 61 happens at the time of the call,
\* the marker of line 79 is read elapsed later.
TimedPass(url, feed, elapsed) ==
    /\ ProcessSourceCall(url, feed, elapsed)
    /\ extracted_at' = Some(now)
    /\ prev_extracted_at' = extracted_at
    /\ UNCHANGED <<tracked, deque_maxlen, daemonVars, serviceVars, senderVars,
                   mainVars>>

NextRace ==
    \/ \E url \in PassUrls, feed \in RaceFeeds(now), elapsed \in {0, 1} :
         TimedPass(url, feed, elapsed)
    \/ \E url \in PassUrls : ExtractFails(url)
    \/ Return /\ UNCHANGED tracked
    \/ Tick

SpecRace == Init /\ [][NextRace]_vars

\* ------------------------------------------------------------------------
\* The daemon with schedules that fire together (SpecCoincide)
\* ------------------------------------------------------------------------
CoincidingConfigs ==
    {<<EveryInstant, EverySecond>>, <<EverySecond, EverySecond>>,
     <<EverySecond, EveryInstant, EveryThird>>}

InitCoincide ==
    /\ InitProcIdle
    /\ InitServiceIdle /\ InitOthersIdle
    /\ now = 0
    /\ frequencies \in CoincidingConfigs
    /\ crons = <<>>
    /\ dpc = "new"
    /\ next_run_time = 0
    /\ current_time = 0
    /\ computed = 0
    /\ wakeups = 0
    /\ calls = 0
    /\ returns = 0
    /\ last_pass = "none"

SpecCoincide == InitCoincide /\ [][NextDaemon]_vars

\* ------------------------------------------------------------------------
\* Passes over two sources of one processor (SpecShared)
\* ------------------------------------------------------------------------
\* Feeds of undated items: the two sources may publish the same links.
UndatedFeeds == SeqsUpTo({Article(l, EmptyDate) : l \in FeedLinks}, MaxFeed) \ {<<>>}

NextShared ==
    \/ \E url \in SourceUrls, feed \in UndatedFeeds : ProcessSource(url, feed, 0)
    \/ Return

SpecShared == Init /\ [][NextShared]_vars

\* ------------------------------------------------------------------------
\* One delivery pass of the service (SpecService)
\* ------------------------------------------------------------------------

\* The sources argument send_newsletter_to_user is called with.
PassSourceLists == {<<>>, <<"s1">>, <<"s1", "s2">>, <<"s1", "s2", "s3">>}

\* content_feed.channel.title: "" (then the url names the source) or a title
\* that several feeds may carry.
ChannelTitles == {"", "t1"}

NewCounts == 0..(DefaultMaxArticlesPerSource + 1)

\* What process_source does for one source of the pass: it raises, or it
\* returns n new articles of a feed with the given channel title.
Raises == [raises |-> TRUE, title |-> "", n |-> 0]

Returns(title, n) == [raises |-> FALSE, title |-> title, n |-> n]

ProcessResults == {Raises} \cup {Returns(t, n) : t \in ChannelTitles, n \in NewCounts}

\* _content_feed_to_articles, line 158: source_title = channel.title or url.
SourceTitle(title, source_url_) == IF title = "" THEN source_url_ ELSE title

\* The articles process_source returns: each carries the source title.
NewArticles(o, source_url_) ==
    [k \in 1..o.n |-> [source |-> SourceTitle(o.title, source_url_), link |-> k]]

\* Python's xs[:m].
SliceTo(xs, m) ==
    IF m >= 0
    THEN SubSeq(xs, 1, IF m < Len(xs) THEN m ELSE Len(xs))
    ELSE SubSeq(xs, 1, IF Len(xs) + m > 0 THEN Len(xs) + m ELSE 0)

\* articles_by_source[source_name] = entry: a known key keeps its place and
\* takes the new value, a new key goes to the end.
DictSet(d, entry) ==
    IF \E i \in 1..Len(d) : d[i].name = entry.name
    THEN [i \in 1..Len(d) |-> IF d[i].name = entry.name THEN entry ELSE d[i]]
    ELSE Append(d, entry)

\* _collect_articles_from_sources, lines 88-107: one source of the loop.  An
\* error of process_source, and the IndexError of articles[0] on an empty
\* slice, is caught and the loop goes on.
CollectStep(acc, source_url_, o) ==
    IF o.raises
    THEN [dict |-> acc.dict, processed |-> Append(acc.processed, source_url_)]
    ELSE LET capped == SliceTo(NewArticles(o, source_url_), max_articles_per_source) IN
         [dict      |-> IF capped = <<>> THEN acc.dict
                        ELSE DictSet(acc.dict,
                                     [name |-> capped[1].source, url |-> source_url_,
                                      articles |-> capped]),
          processed |-> Append(acc.processed, source_url_)]

RECURSIVE CollectLoop(_, _, _, _)
CollectLoop(sources, outs, i, acc) ==
    IF i > Len(sources) THEN acc
    ELSE CollectLoop(sources, outs, i + 1, CollectStep(acc, sources[i], outs[i]))

\* _collect_articles_from_sources: the dict it returns, as the list of its
\* entries, and the urls it called process_source with.
collect_articles_from_sources(sources, outs) ==
    CollectLoop(sources, outs, 1,
                [dict |-> <<>>, processed |-> <<>>])

\* What one source gave, as send_newsletter_to_user sees it.
OutcomeOf(o, source_url_) ==
    IF o.raises THEN "raise"
    ELSE IF SliceTo(NewArticles(o, source_url_), max_articles_per_source) = <<>>
    THEN "none"
    ELSE "some"

\* The pass calling send_email whatever rendering did.
EmailsOfPassIgnoringRender(status) ==
    IF status \in {"render_error", "send_error", "sent"} THEN 1 ELSE 0

\* Calls of send_email (line 65) in a pass that ended with this status.
EmailsOfPass(status) == IF status \in {"send_error", "sent"} THEN 1 ELSE 0

\* Calls of generate_newsletter (lines 56-58).
RendersOfPass(status) ==
    IF status \in {"render_error", "send_error", "sent"} THEN 1 ELSE 0

\* The pass reporting success although send_email raised.
ResultOfPassIgnoringSendError(status) == status \in {"sent", "send_error"}

\* send_newsletter_to_user returns True on line 67 only.
ResultOfPass(status) == status = "sent"

InitService == InitProcIdle /\ now = 0 /\ InitDaemonIdle /\ InitServiceIdle /\ InitOthersIdle

\* send_newsletter_to_user(user_email, sources), the whole call.
ServicePass ==
    /\ spc = "idle"
    /\ \E srcs \in PassSourceLists, render_raises \in BOOLEAN, send_raises \in BOOLEAN :
         \E outs \in [1..Len(srcs) -> ProcessResults] :
           LET collected == collect_articles_from_sources(srcs, outs)
               status == send_newsletter_to_user(
                           srcs, [i \in 1..Len(srcs) |-> OutcomeOf(outs[i], srcs[i])],
                           render_raises, send_raises)
           IN /\ pass_sources' = srcs
              /\ outcomes' = outs
              /\ processed' = collected.processed
              /\ articles_by_source' = collected.dict
              /\ rendered' = RendersOfPass(status)
              /\ emails' = EmailsOfPass(status)
              /\ pass_result' = ResultOfPass(status)
              /\ last_pass' = status
    /\ spc' = "returned"
    /\ UNCHANGED <<procVars, now, frequencies, crons, dpc, next_run_time,
                   current_time, computed, wakeups, calls, returns,
                   max_articles_per_source, otherVars>>

\* The caller takes the result.
ServiceReturn ==
    /\ spc = "returned"
    /\ spc' = "idle"
    /\ pass_sources' = <<>>
    /\ outcomes' = <<>>
    /\ processed' = <<>>
    /\ articles_by_source' = <<>>
    /\ rendered' = 0
    /\ emails' = 0
    /\ pass_result' = FALSE
    /\ last_pass' = "none"
    /\ UNCHANGED <<procVars, now, frequencies, crons, dpc, next_run_time,
                   current_time, computed, wakeups, calls, returns,
                   max_articles_per_source, otherVars>>

NextService == ServicePass \/ ServiceReturn

SpecService == InitService /\ [][NextService]_vars

\* ------------------------------------------------------------------------
\* EmailSender.send_email, one SMTP call at a time (SpecSender)
\* ------------------------------------------------------------------------
MaxAttempts == 3

\* What one SMTP call does: it returns or it raises.
SmtpResults == {"ok", "raises"}

\* send_email, lines 37-46: the message is built, server = None, the try
\* block is entered.
SendEmail ==
    /\ smtp_pc = "idle"
    /\ attempts < MaxAttempts
    /\ attempts' = attempts + 1
    /\ server' = None
    /\ quit_calls' = 0
    /\ failed_step' = "none"
    /\ smtp_pc' = "try"
    /\ UNCHANGED delivered

\* One call of the try block: on success the next call follows, an error
\* leads to the finally block.
TryStep(at, step, next, result) ==
    /\ smtp_pc = at
    /\ IF result = "ok"
       THEN /\ smtp_pc' = next
            /\ UNCHANGED failed_step
       ELSE /\ smtp_pc' = "finally"
            /\ failed_step' = step

\* Line 48: server = smtplib.SMTP(host, port); server is bound only when the
\* constructor returns.
Connect ==
    \E result \in SmtpResults :
      /\ TryStep("try", "connect", "connected", result)
      /\ server' = IF result = "ok" THEN Some("smtp") ELSE server
      /\ UNCHANGED <<quit_calls, attempts, delivered>>

\* Line 49: server.starttls()
StartTls ==
    \E result \in SmtpResults :
      /\ TryStep("connected", "starttls", "secured", result)
      /\ UNCHANGED <<server, quit_calls, attempts, delivered>>

\* Line 50: server.login(sender_email, sender_password)
Login ==
    \E result \in SmtpResults :
      /\ TryStep("secured", "login", "logged_in", result)
      /\ UNCHANGED <<server, quit_calls, attempts, delivered>>

\* Line 53: server.send_message(message), the last call of the try block.
SendMessage ==
    \E result \in SmtpResults :
      /\ TryStep("logged_in", "send_message", "finally", result)
      /\ delivered' = IF result = "ok" THEN delivered + 1 ELSE delivered
      /\ UNCHANGED <<server, quit_calls, attempts>>

\* The finally block calling quit only when nothing went wrong.
FinallyQuitOnSuccessOnly ==
    /\ smtp_pc = "finally"
    /\ IF server # None /\ failed_step = "none"
       THEN \E result \in SmtpResults :
              /\ quit_calls' = quit_calls + 1
              /\ failed_step' = IF result = "ok" THEN failed_step ELSE "quit"
              /\ smtp_pc' = IF result = "ok" THEN "returned" ELSE "raised"
       ELSE /\ smtp_pc' = IF failed_step = "none" THEN "returned" ELSE "raised"
            /\ UNCHANGED <<quit_calls, failed_step>>
    /\ UNCHANGED <<server, attempts, delivered>>

\* Lines 54-56: finally, if server: server.quit().  An SMTP object is truthy.
\* quit itself may raise; otherwise the error of the try block, if any, goes
\* on to the caller.
Finally ==
    /\ smtp_pc = "finally"
    /\ IF server # None
       THEN \E result \in SmtpResults :
              /\ quit_calls' = quit_calls + 1
              /\ failed_step' = IF result = "ok" THEN failed_step ELSE "quit"
              /\ smtp_pc' = IF result = "ok" /\ failed_step = "none"
                            THEN "returned" ELSE "raised"
       ELSE /\ smtp_pc' = IF failed_step = "none" THEN "returned" ELSE "raised"
            /\ UNCHANGED <<quit_calls, failed_step>>
    /\ UNCHANGED <<server, attempts, delivered>>

\* The caller has the result, or the error, of send_email.
SendEmailEnds ==
    /\ smtp_pc \in {"returned", "raised"}
    /\ smtp_pc' = "idle"
    /\ UNCHANGED <<server, quit_calls, failed_step, attempts, delivered>>

NextSender ==
    /\ \/ SendEmail
       \/ Connect
       \/ StartTls
       \/ Login
       \/ SendMessage
       \/ Finally
       \/ SendEmailEnds
    /\ UNCHANGED <<procVars, now, daemonVars, serviceVars, mainVars, raceVars>>

SpecSender == InitFilter /\ [][NextSender]_vars

\* ------------------------------------------------------------------------
\* main(), one call at a time (SpecMain)
\* ------------------------------------------------------------------------
MaxKeys == 2

CacheKeys == {"k1", "k2"}

\* --clear-cache-keys has nargs="*" and default None: absent it is None, given
\* it is the list of the keys that follow, which may be empty.
ClearCacheKeysValues == {None} \cup {Some(ks) : ks \in SeqsUpTo(CacheKeys, MaxKeys)}

ArgSets ==
    {Args(a, ks, d) : a \in BOOLEAN, ks \in ClearCacheKeysValues, d \in BOOLEAN}

\* How a call made by main ends.
CallOutcomes == {"returns", "Exception", "KeyboardInterrupt"}

Called(call, keys) == [call |-> call, keys |-> keys]

\* Lines 188-198 testing --init-db before the two cache flags.
MaintenanceActionInitDbFirst(a) ==
    IF a.init_db THEN "initialize_database"
    ELSE IF a.clear_all_cache THEN "clear_all_cache"
    ELSE IF a.clear_cache_keys # None /\ The(a.clear_cache_keys) # <<>>
    THEN "clear_cache_for_keys"
    ELSE "none"

\* Lines 188-198: the maintenance action main runs, if any.  An empty key
\* list is falsy.
MaintenanceAction(a) ==
    IF a.clear_all_cache THEN "clear_all_cache"
    ELSE IF a.clear_cache_keys # None /\ The(a.clear_cache_keys) # <<>>
    THEN "clear_cache_for_keys"
    ELSE IF a.init_db THEN "initialize_database"
    ELSE "none"

\* Lines 209-215: KeyboardInterrupt gives 0, any other Exception 1.
ExitCodeOf(outcome) == IF outcome = "Exception" THEN 1 ELSE 0

\* Lines 180-186: parse_arguments and setup_logger.
ParseArguments ==
    /\ mpc = "start"
    /\ args' \in ArgSets
    /\ mpc' = "parsed"
    /\ UNCHANGED <<ran, ended_by, exit_code>>

\* Lines 188-198: the maintenance action, then return 0 unless it raised.
Maintenance ==
    /\ mpc = "parsed"
    /\ MaintenanceAction(args) # "none"
    /\ ran' = <<Called(MaintenanceAction(args),
                       IF MaintenanceAction(args) = "clear_cache_for_keys"
                       THEN The(args.clear_cache_keys) ELSE <<>>)>>
    /\ \E outcome \in CallOutcomes :
         /\ ended_by' = outcome
         /\ exit_code' = Some(ExitCodeOf(outcome))
    /\ mpc' = "exited"
    /\ UNCHANGED args

\* A call of the way to the daemon: when it returns main goes on, when it
\* raises main returns the exit code of the except clause.
Step(at, call, next) ==
    /\ mpc = at
    /\ ran' = Append(ran, Called(call, <<>>))
    /\ \E outcome \in CallOutcomes :
         /\ ended_by' = outcome
         /\ IF outcome = "returns"
            THEN mpc' = next /\ UNCHANGED exit_code
            ELSE mpc' = "exited" /\ exit_code' = Some(ExitCodeOf(outcome))
    /\ UNCHANGED args

\* Line 200: config = Config.load_from_file(args.config_file)
LoadConfig == MaintenanceAction(args) = "none" /\ Step("parsed", "load_from_file", "loaded")

\* Line 202: components = create_app_components(config, args.db_path)
CreateComponents == Step("loaded", "create_app_components", "built")

\* Line 205: components["daemon"].run() is entered.
StartDaemon ==
    /\ mpc = "built"
    /\ ran' = Append(ran, Called("daemon.run", <<>>))
    /\ mpc' = "running"
    /\ UNCHANGED <<args, ended_by, exit_code>>

\* run() loops for ever: it ends only by an exception.
DaemonEnds ==
    /\ mpc = "running"
    /\ \E outcome \in CallOutcomes \ {"returns"} :
         /\ ended_by' = outcome
         /\ exit_code' = Some(ExitCodeOf(outcome))
    /\ mpc' = "exited"
    /\ UNCHANGED <<args, ran>>

NextMain ==
    /\ \/ ParseArguments
       \/ Maintenance
       \/ LoadConfig
       \/ CreateComponents
       \/ StartDaemon
       \/ DaemonEnds
    /\ UNCHANGED <<procVars, now, daemonVars, serviceVars, senderVars, raceVars>>

SpecMain == InitFilter /\ [][NextMain]_vars

\* ------------------------------------------------------------------------
\* Delivery passes under any configured cap (SpecCap)
\* ------------------------------------------------------------------------
\* Config.load_from_file takes max_articles_per_source from the file as it
\* is: no validation rejects zero or a negative number.
ConfiguredCaps == (-1)..DefaultMaxArticlesPerSource

InitCap ==
    /\ InitProcIdle /\ now = 0 /\ InitDaemonIdle
    /\ spc = "idle"
    /\ pass_sources = <<>>
    /\ outcomes = <<>>
    /\ processed = <<>>
    /\ articles_by_source = <<>>
    /\ rendered = 0
    /\ emails = 0
    /\ pass_result = FALSE
    /\ max_articles_per_source \in ConfiguredCaps
    /\ InitOthersIdle

SpecCap == InitCap /\ [][NextService]_vars

\* ------------------------------------------------------------------------
\* Passes whose result the service may fail to deliver (SpecLoss)
\* ------------------------------------------------------------------------
LossLinks == {"a", "b"}

\* Dated items; a feed shows no item published after its extraction.
LossArticles(t) == {Article(l, PubDate("space", d, 0)) : l \in LossLinks, d \in 0..t}

LossFeeds(t) == SeqsUpTo(LossArticles(t), 2) \ {<<>>}

\* A service configured with max_articles_per_source: 1.
InitLoss ==
    /\ InitProcIdle /\ now = 0 /\ InitDaemonIdle
    /\ spc = "idle"
    /\ pass_sources = <<>>
    /\ outcomes = <<>>
    /\ processed = <<>>
    /\ articles_by_source = <<>>
    /\ rendered = 0
    /\ emails = 0
    /\ pass_result = FALSE
    /\ max_articles_per_source = 1
    /\ InitOthersIdle

\* What becomes of the item at position i of the list process_source
\* returned: the slice of service.py:93 cuts it, or it is in the pass that
\* send_newsletter_to_user renders and sends.
FateOf(i, render_raises, send_raises) ==
    IF i > Len(SliceTo(filtered_articles, max_articles_per_source))
    THEN "capped"
    ELSE send_newsletter_to_user(<<source_url>>, <<"some">>, render_raises,
                                 send_raises)

\* The service putting the marker back when the item was not emailed.
ReturnToServiceRollingBack ==
    /\ pc \in {"returned", "raised"}
    /\ \/ UNCHANGED <<tracked, source_metadata>>
       \/ /\ tracked = {}
          /\ pc = "returned"
          /\ \E i \in 1..Len(filtered_articles),
                render_raises \in BOOLEAN, send_raises \in BOOLEAN :
               /\ tracked' =
                    {[url     |-> source_url,
                      article |-> filtered_articles[i],
                      settled |-> DatedAtOrBefore(
                                    filtered_articles[i].pubDate,
                                    The(source_metadata[source_url].last_successful_run)),
                      fate    |-> FateOf(i, render_raises, send_raises)]}
               /\ source_metadata' =
                    IF FateOf(i, render_raises, send_raises) = "sent"
                    THEN source_metadata
                    ELSE [source_metadata EXCEPT ![source_url] =
                            Row(last_run_timestamp)]
    /\ pc' = "idle"
    /\ articles' = <<>>
    /\ last_run_timestamp' = None
    /\ cache0' = <<>>
    /\ filtered_articles' = <<>>
    /\ included' = <<>>
    /\ source_url' = ""
    /\ UNCHANGED <<non_dated_processed_urls, deque_maxlen, now, daemonVars,
                   serviceVars, otherVars>>

\* process_source has returned to _collect_articles_from_sources, which caps
\* the list, and send_newsletter_to_user renders and sends; none of them
\* touches the run records.  One returned item may be followed from here on,
\* with what became of it.
ReturnToService ==
    /\ pc \in {"returned", "raised"}
    /\ \/ UNCHANGED tracked
       \/ /\ tracked = {}
          /\ pc = "returned"
          /\ \E i \in 1..Len(filtered_articles),
                render_raises \in BOOLEAN, send_raises \in BOOLEAN :
               tracked' =
                 {[url     |-> source_url,
                   article |-> filtered_articles[i],
                   settled |-> DatedAtOrBefore(
                                 filtered_articles[i].pubDate,
                                 The(source_metadata[source_url].last_successful_run)),
                   fate    |-> FateOf(i, render_raises, send_raises)]}
    /\ pc' = "idle"
    /\ articles' = <<>>
    /\ last_run_timestamp' = None
    /\ cache0' = <<>>
    /\ filtered_articles' = <<>>
    /\ included' = <<>>
    /\ source_url' = ""
    /\ UNCHANGED <<non_dated_processed_urls, source_metadata, deque_maxlen, now,
                   daemonVars, serviceVars, otherVars>>

NextLoss ==
    \/ \E url \in PassUrls, feed \in LossFeeds(now), elapsed \in {0, 1} :
         ProcessSource(url, feed, elapsed)
    \/ \E url \in PassUrls : ExtractFails(url)
    \/ ReturnToService
    \/ Tick

SpecLoss == InitLoss /\ [][NextLoss]_vars

\* ------------------------------------------------------------------------
\* Properties of the filter: what one call did to each article of its batch
\* ------------------------------------------------------------------------
Returned == pc = "returned"

Positions == 1..Len(articles)

\* The cache as the loop found it at position i, and as it left it.
CacheBefore(i) ==
    filter_articles_by_timestamp(SubSeq(articles, 1, i - 1), last_run_timestamp,
                                 cache0).cache

CacheAfter(i) ==
    filter_articles_by_timestamp(SubSeq(articles, 1, i), last_run_timestamp,
                                 cache0).cache

LinkOf(i) == articles[i].link

\* No parseable date: absent, empty or unparsable pubDate.
Undated(i) ==
    /\ ~parse_date_raises(articles[i].pubDate)
    /\ ~parse_date(articles[i].pubDate).some

Dated(i) ==
    /\ ~parse_date_raises(articles[i].pubDate)
    /\ parse_date(articles[i].pubDate).some

\* The date parses and normalizes: the item has a normalized timestamp.
HasTimestamp(i) == Dated(i) /\ ~normalize_raises(parse_date(articles[i].pubDate))

Timestamp(i) == normalize_datetime_to_utc_naive(parse_date(articles[i].pubDate))

LastRunKnown == last_run_timestamp # None

\* The evaluation of the article raises.
EvaluationFails(i) ==
    \/ parse_date_raises(articles[i].pubDate)
    \/ LastRunKnown /\ Dated(i) /\ normalize_raises(parse_date(articles[i].pubDate))

Cached(i) == InDeque(LinkOf(i), CacheBefore(i))

\* C2 as claimed: every undated item is included and recorded when its
\* identifier is not in the cache (the first encounter is such a case), and
\* excluded while its identifier is in the cache.
C2_UndatedFirstThenExcluded ==
    Returned =>
      \A i \in Positions :
        Undated(i) =>
          IF Cached(i)
          THEN ~included[i]
          ELSE included[i] /\ InDeque(LinkOf(i), CacheAfter(i))

\* C2 amended: the same for undated items with a non-empty identifier.
C2_UndatedNonEmptyFirstThenExcluded ==
    Returned =>
      \A i \in Positions :
        (Undated(i) /\ LinkOf(i) # "") =>
          IF Cached(i)
          THEN ~included[i] /\ CacheAfter(i) = CacheBefore(i)
          ELSE included[i] /\ InDeque(LinkOf(i), CacheAfter(i))

\* C2 witness: an undated item is dropped in a later batch than the one that
\* recorded its identifier, and another is included and recorded.
C2_Witness ==
    /\ Returned
    /\ \E i \in Positions :
         Undated(i) /\ LinkOf(i) # "" /\ InDeque(LinkOf(i), cache0) /\ ~included[i]
    /\ \E j \in Positions :
         Undated(j) /\ LinkOf(j) # "" /\ ~Cached(j) /\ included[j]

\* C3 as claimed: an item with a timestamp strictly later than the known last
\* run is included and not recorded, whatever the cache contains.
C3_NewerIncludedWhateverCache ==
    Returned =>
      \A i \in Positions :
        (LastRunKnown /\ HasTimestamp(i) /\ Timestamp(i) > The(last_run_timestamp))
          => included[i] /\ CacheAfter(i) = CacheBefore(i)

\* C3 amended: an item with a timestamp strictly later than the known last
\* run, whose identifier is not in the cache when it is evaluated, is included
\* and the cache is left as it was.
C3_NewerUncachedIncluded ==
    Returned =>
      \A i \in Positions :
        (LastRunKnown /\ HasTimestamp(i) /\ Timestamp(i) > The(last_run_timestamp)
         /\ ~Cached(i))
          => included[i] /\ CacheAfter(i) = CacheBefore(i)

\* C3 witness: such an item is included by a call that started with a
\* non-empty cache.
C3_Witness ==
    /\ Returned
    /\ cache0 # <<>>
    /\ \E i \in Positions :
         /\ LastRunKnown /\ HasTimestamp(i)
         /\ Timestamp(i) > The(last_run_timestamp)
         /\ ~Cached(i) /\ included[i]

\* C4: an item with a timestamp at or before the known last run is excluded;
\* a tie is excluded.
C4_AtOrBeforeExcluded ==
    Returned =>
      \A i \in Positions :
        (LastRunKnown /\ HasTimestamp(i) /\ Timestamp(i) <= The(last_run_timestamp))
          => ~included[i]

\* C4 witness: a tie and an older item, both excluded by one call.
C4_Witness ==
    /\ Returned /\ LastRunKnown
    /\ \E i, j \in Positions :
         /\ HasTimestamp(i) /\ Timestamp(i) = The(last_run_timestamp) /\ ~included[i]
         /\ HasTimestamp(j) /\ Timestamp(j) < The(last_run_timestamp) /\ ~included[j]

\* C5: the cache never holds more than its capacity.
C5_CacheWithinCapacity == Len(non_dated_processed_urls) <= max_fallback_urls

\* C5 witness: a call that found the cache full recorded a new identifier.
C5_Witness ==
    /\ Returned
    /\ Len(cache0) = max_fallback_urls
    /\ Len(non_dated_processed_urls) = max_fallback_urls
    /\ non_dated_processed_urls # cache0

\* The evaluation of article i records its identifier.
Records(i) ==
    /\ Undated(i) \/ EvaluationFails(i)
    /\ LinkOf(i) # ""
    /\ ~Cached(i)

\* C6: recording into a full cache evicts exactly the entry at the head, the
\* one inserted longest ago, and keeps the others in order behind the new one;
\* an undated item whose identifier is not (or no longer) in the cache is
\* included.
C6_FifoEviction ==
    Returned =>
      \A i \in Positions :
        /\ (Records(i) /\ Len(CacheBefore(i)) = max_fallback_urls) =>
             /\ CacheAfter(i) = Append(Tail(CacheBefore(i)), LinkOf(i))
             /\ ~InDeque(Head(CacheBefore(i)), CacheAfter(i))
        /\ (Records(i) /\ Len(CacheBefore(i)) < max_fallback_urls) =>
             CacheAfter(i) = Append(CacheBefore(i), LinkOf(i))
        /\ (Undated(i) /\ LinkOf(i) # "" /\ ~Cached(i)) => included[i]

\* C6 witness: one batch records into a full cache and then meets the evicted
\* identifier again, undated, and includes it.
C6_Witness ==
    /\ Returned
    /\ \E i, j \in Positions :
         /\ i < j
         /\ Records(i) /\ Len(CacheBefore(i)) = max_fallback_urls
         /\ LinkOf(j) = Head(CacheBefore(i))
         /\ Undated(j) /\ included[j]

\* C7 as claimed: with no last run, every dated item is included and not
\* recorded, and an undated item is included only when its identifier is not
\* in the cache.
C7_FirstRunIncludesEveryDated ==
    (Returned /\ ~LastRunKnown) =>
      \A i \in Positions :
        /\ Dated(i) => included[i] /\ CacheAfter(i) = CacheBefore(i)
        /\ Undated(i) => (included[i] <=> ~Cached(i))

\* C7 amended: with no last run, every dated item whose identifier is not in
\* the cache is included and not recorded, and an undated item with a
\* non-empty identifier is included exactly when its identifier is not in the
\* cache; so [A dated, B undated], with A's identifier not cached, gives
\* [A, B] and records B when B is not cached, and gives [A] when B is.
C7_FirstRunIncludesUncachedDated ==
    (Returned /\ ~LastRunKnown) =>
      /\ \A i \in Positions :
           /\ (Dated(i) /\ ~Cached(i)) =>
                included[i] /\ CacheAfter(i) = CacheBefore(i)
           /\ (Undated(i) /\ LinkOf(i) # "") => (included[i] <=> ~Cached(i))
      /\ (/\ Len(articles) = 2
          /\ Dated(1) /\ Undated(2)
          /\ LinkOf(2) # "" /\ LinkOf(1) # LinkOf(2)
          /\ ~InDeque(LinkOf(1), cache0)) =>
             IF InDeque(LinkOf(2), cache0)
             THEN /\ filtered_articles = <<articles[1]>>
                  /\ non_dated_processed_urls = cache0
             ELSE /\ filtered_articles = articles
                  /\ InDeque(LinkOf(2), non_dated_processed_urls)
                  /\ ~InDeque(LinkOf(1), non_dated_processed_urls)

\* C7 witness: the second run over [A dated, B undated] returns only A.
C7_Witness ==
    /\ Returned /\ ~LastRunKnown
    /\ Len(articles) = 2
    /\ Dated(1) /\ Undated(2) /\ LinkOf(1) # "" /\ LinkOf(1) # LinkOf(2)
    /\ cache0 = <<LinkOf(2)>>
    /\ filtered_articles = <<articles[1]>>

\* C8 as claimed: every article of the batch is evaluated, and one whose
\* evaluation fails is included and its identifier is in the cache afterwards.
C8_FailingItemIncludedAndRecorded ==
    Returned =>
      /\ Len(included) = Len(articles)
      /\ \A i \in Positions :
           (EvaluationFails(i) /\ ~Cached(i)) =>
             included[i] /\ InDeque(LinkOf(i), CacheAfter(i))

\* C8 amended: every article of the batch is evaluated, and one whose
\* evaluation fails is included and its identifier, if not empty, is in the
\* cache afterwards; the articles after it are decided as they would be by a
\* call that starts there.
C8_FailingItemIncludedAndRecordedIfNamed ==
    Returned =>
      /\ Len(included) = Len(articles)
      /\ \A i \in Positions :
           (EvaluationFails(i) /\ ~Cached(i)) =>
             /\ included[i]
             /\ LinkOf(i) # "" => InDeque(LinkOf(i), CacheAfter(i))
             /\ LinkOf(i) = "" => CacheAfter(i) = CacheBefore(i)
             /\ \A j \in Positions :
                  j > i =>
                    included[j] =
                      FilterStep(articles[j], parse_iso_timestamp(last_run_timestamp),
                                 CacheBefore(j)).include

\* C8 witness: the first article of a batch fails, is included and recorded,
\* and the article after it is evaluated and excluded as too old.
C8_Witness ==
    /\ Returned /\ LastRunKnown
    /\ Len(articles) = 2
    /\ EvaluationFails(1) /\ LinkOf(1) # "" /\ ~Cached(1)
    /\ included[1] /\ InDeque(LinkOf(1), non_dated_processed_urls)
    /\ HasTimestamp(2) /\ ~included[2]

\* C23: an item whose identifier is in the cache is dropped whatever its date
\* (a date whose evaluation would raise included), and the cache is left as
\* it was: same members in the same order.
C23_CacheHitDropsAndKeepsCache ==
    Returned =>
      \A i \in Positions :
        Cached(i) => ~included[i] /\ CacheAfter(i) = CacheBefore(i)

\* C23 witness: the cache is full, its oldest identifier comes again on an
\* item whose date evaluation would raise; the item is dropped and the
\* identifier is still the oldest.
C23_Witness ==
    /\ Returned
    /\ \E i \in Positions :
         /\ Cached(i)
         /\ articles[i].pubDate = NonStrDate
         /\ Len(CacheBefore(i)) = deque_maxlen
         /\ Len(CacheBefore(i)) > 1
         /\ CacheBefore(i)[1] = LinkOf(i)
         /\ CacheAfter(i)[1] = LinkOf(i)
         /\ ~included[i]

\* C24 as claimed: the evaluation of an item with a parseable date leaves the
\* cache unchanged, so only items without a parseable date insert identifiers.
C24_DatedItemsNeverTouchCache ==
    Returned =>
      \A i \in Positions : Dated(i) => CacheAfter(i) = CacheBefore(i)

\* C24 amended: the evaluation of an item with a parseable date leaves the
\* cache unchanged unless it fails (the date cannot be normalized to UTC), so
\* identifiers are inserted only by items without a parseable date and by
\* items whose evaluation failed.
C24_EvaluatedDatedItemsNeverTouchCache ==
    Returned =>
      \A i \in Positions :
        (Dated(i) /\ ~EvaluationFails(i)) => CacheAfter(i) = CacheBefore(i)

\* C24 witness: a batch of two dated items with new identifiers, one included
\* and one excluded, met a non-empty cache and left it as it was.
C24_Witness ==
    /\ Returned
    /\ Len(articles) = 2
    /\ cache0 # <<>>
    /\ \A i \in Positions :
         Dated(i) /\ ~EvaluationFails(i) /\ LinkOf(i) # "" /\ ~Cached(i)
    /\ included[1] /\ ~included[2]
    /\ non_dated_processed_urls = cache0

\* ------------------------------------------------------------------------
\* Properties of the passes
\* ------------------------------------------------------------------------
\* The last call processed the source of the tracked item.
TrackedSourceAgain ==
    /\ Returned
    /\ tracked # None
    /\ source_url = The(tracked).url

\* C1 as claimed: an item that an earlier pass returned for a source is in the
\* result of no later pass for that source.
C1_NeverReturnedAgain ==
    TrackedSourceAgain =>
      \A i \in Positions :
        included[i] => LinkOf(i) # The(tracked).article.link

\* C1 amended: an item that an earlier pass returned for a source is not
\* returned again, with the same link and publication date, by a later pass
\* for that source when its timestamp was at or before the marker the earlier
\* pass recorded, nor when its identifier is in the cache as the later pass
\* evaluates it.
C1_SettledOrCachedNeverReturnedAgain ==
    TrackedSourceAgain =>
      \A i \in Positions :
        (articles[i] = The(tracked).article /\ included[i]) =>
          ~The(tracked).settled /\ ~Cached(i)

\* C1 witness: a later pass for the same source meets the item again and
\* leaves it out.
C1_Witness ==
    /\ TrackedSourceAgain
    /\ The(tracked).settled
    /\ \E i \in Positions : articles[i] = The(tracked).article /\ ~included[i]

\* ------------------------------------------------------------------------
\* Properties of the daemon
\* ------------------------------------------------------------------------
Waiting == dpc \in {"run", "computed", "sleeping", "awake"}

Dispatching == dpc = "dispatching"

\* C9 as claimed: once a delivery pass has completed, however it ended, the
\* loop is Waiting or Dispatching again and never terminated.
C9_LoopGoesOnAfterEveryPass == returns >= 1 => Waiting \/ Dispatching

\* C10: every wake-up is followed by one call, at most one call is in
\* flight, and a fire time is computed only when every call has returned.
C10_OnceAndNeverOverlapping ==
    /\ wakeups - calls = (IF dpc = "awake" THEN 1 ELSE 0)
    /\ calls - returns = (IF Dispatching THEN 1 ELSE 0)
    /\ computed - wakeups \in {0, 1}
    /\ dpc \in {"computed", "sleeping"} => computed = returns + 1 /\ calls = returns
    /\ dpc = "run" => computed = returns /\ calls = returns

\* C10 witness: two passes have run to their end, one after the other.
C10_Witness == returns >= 2 /\ dpc = "computed"

\* C28: while a call of send_newsletter_to_user has not returned, whatever
\* time passes, no next fire time is computed and no other call starts; the
\* loop leaves the dispatch only by the return of the call.
C28_HungDispatchBlocksTheLoop ==
    [][Dispatching =>
         /\ computed' = computed
         /\ next_run_time' = next_run_time
         /\ calls' = calls
         /\ dpc' = "dispatching" \/ returns' = returns + 1]_vars

\* C28 witness: the schedule fires at every instant, the call that began at
\* its fire time has not returned two instants later, and no further fire
\* time was computed.
C28_Witness ==
    /\ Dispatching
    /\ crons = <<EveryInstant>>
    /\ calls = 1 /\ returns = 0 /\ computed = 1
    /\ now >= next_run_time + 2

\* C33 as claimed: a dispatch never starts before the computed fire time, the
\* length the loop asks to sleep is never negative, and with schedules the
\* loop does not end in an error, whatever time passes between its two reads
\* of the clock.
C33_SleepNeverNegative ==
    /\ Dispatching => now >= next_run_time
    /\ dpc = "sleeping" => next_run_time - current_time >= 0
    /\ crons # <<>> => dpc # "crashed"

\* ------------------------------------------------------------------------
\* Properties of the schedule
\* ------------------------------------------------------------------------
\* The schedule fires at instant x.
Matches(cron, x) == x % cron.period = cron.offset

\* The first instant after t at which the schedule fires.
NextAfter(cron, t) ==
    CHOOSE x \in (t + 1)..(t + cron.period) :
        /\ Matches(cron, x)
        /\ \A y \in (t + 1)..(x - 1) : ~Matches(cron, y)

\* C11: the computed fire time is the next fire of one of the schedules and no
\* schedule fires earlier after now; daily 08:00 and Sunday 09:00 on Saturday
\* 07:00 give Saturday 08:00.
C11_NextFireIsMinimum ==
    dpc = "computed" =>
      /\ \E i \in 1..Len(crons) : next_run_time = NextAfter(crons[i], now)
      /\ \A i \in 1..Len(crons) : next_run_time <= NextAfter(crons[i], now)
      /\ (/\ Len(crons) = 2
          /\ {crons[1], crons[2]} = {Daily0800, Sunday0900}
          /\ now = Saturday0700) => next_run_time = Saturday0800

\* C11 witness: the example, with the weekly schedule listed first.
C11_Witness ==
    /\ dpc = "computed"
    /\ crons = <<Sunday0900, Daily0800>>
    /\ now = Saturday0700
    /\ next_run_time = Saturday0800

\* C12: every computation takes the earliest schedule instant later than the
\* instant of the computation, and the loop wakes up no earlier than it; an
\* instant that passed before the computation is never taken.
C12_RecomputedFromNow ==
    [][/\ (dpc = "run" /\ dpc' = "computed") =>
            /\ next_run_time' > now
            /\ \E i \in 1..Len(crons) : Matches(crons[i], next_run_time')
            /\ \A x \in (now + 1)..(next_run_time' - 1) :
                 \A i \in 1..Len(crons) : ~Matches(crons[i], x)
       /\ (dpc = "sleeping" /\ dpc' = "awake") => now >= next_run_time
      ]_vars

\* C12 witness: with a schedule firing at every instant, the pass for instant
\* 1 took until instant 3; the fire computed next is 4, and 2 and 3 were
\* dispatched by no call.
C12_Witness ==
    /\ frequencies = <<EveryInstant>>
    /\ dpc = "computed"
    /\ calls = 1 /\ returns = 1
    /\ now = 3
    /\ next_run_time = 4

\* C13: with an invalid expression anywhere in the list no daemon exists, no
\* fire time is computed and nothing is dispatched; a daemon that exists holds
\* every configured schedule.
C13_InvalidScheduleNoDaemon ==
    /\ (\E i \in 1..Len(frequencies) : ~frequencies[i].valid) =>
         /\ dpc \in {"new", "init_failed"}
         /\ computed = 0 /\ wakeups = 0 /\ calls = 0
    /\ dpc \notin {"new", "init_failed"} => crons = frequencies

\* C13 witness: the second expression of two is invalid and construction
\* has raised.
C13_Witness ==
    /\ dpc = "init_failed"
    /\ frequencies = <<EverySecond, InvalidCron>>

\* ------------------------------------------------------------------------
\* Properties of the construction
\* ------------------------------------------------------------------------
\* C14 as claimed: with a capacity of 0 or less the construction fails, so no
\* processor exists and no filter call runs with such a cache.
C14_NonPositiveCapacityRejected ==
    deque_maxlen <= 0 => pc \in {"new", "init_failed"}

\* ------------------------------------------------------------------------
\* Properties of process_source and of the run records
\* ------------------------------------------------------------------------
\* A step that is a successful process_source call, and one that is a failed one.
Succeeds == pc = "idle" /\ pc' = "returned"

Fails == pc = "idle" /\ pc' = "raised"

\* C15: a call whose extraction fails ends in the error and changes neither
\* the run records nor the cache.
C15_FailedExtractionChangesNothing ==
    [][Fails =>
         /\ source_metadata' = source_metadata
         /\ non_dated_processed_urls' = non_dated_processed_urls
      ]_vars

\* C15 witness: the extraction failed for a source that has a record, with
\* identifiers in the cache.
C15_Witness ==
    /\ pc = "raised"
    /\ source_metadata[source_url].present
    /\ non_dated_processed_urls # <<>>

\* C17: a successful call filters the batch against the marker stored before
\* the call, and afterwards the marker of that source, and of no other, is the
\* instant at the end of the call.
C17_FilteredAgainstPreviousMarker ==
    [][Succeeds =>
         /\ last_run_timestamp' = source_metadata[source_url'].last_successful_run
         /\ filtered_articles' =
              filter_articles_by_timestamp(
                articles', source_metadata[source_url'].last_successful_run,
                non_dated_processed_urls).filtered_articles
         /\ source_metadata'[source_url'] = Row(Some(now'))
         /\ \A s \in SourceUrls \ {source_url'} :
              source_metadata'[s] = source_metadata[s]
      ]_vars

\* C17 witness: a call returned an item dated after the previous marker and
\* not after the marker the call wrote.
C17_Witness ==
    /\ pc = "returned"
    /\ last_run_timestamp # None
    /\ source_metadata[source_url].last_successful_run # last_run_timestamp
    /\ \E i \in 1..Len(articles) :
         /\ included[i]
         /\ DatedAtOrBefore(articles[i].pubDate,
                            The(source_metadata[source_url].last_successful_run))

\* C18: a record appears only by a successful call for its source, carries a
\* marker after every successful call, and a record that exists stays.
C18_RunRecordCreatedOnceKeptForever ==
    [][/\ \A s \in SourceUrls :
            /\ source_metadata[s].present => source_metadata'[s].present
            /\ (~source_metadata[s].present /\ source_metadata'[s].present)
                 => Succeeds /\ source_url' = s
       /\ Succeeds =>
            /\ source_metadata'[source_url'].present
            /\ source_metadata'[source_url'].last_successful_run # None
      ]_vars

\* C18 witness: the record of a source is there, with its marker, after a
\* later call for the source failed.
C18_Witness ==
    /\ pc = "raised"
    /\ source_metadata[source_url].present
    /\ source_metadata[source_url].last_successful_run # None
    /\ now > The(source_metadata[source_url].last_successful_run)

\* ------------------------------------------------------------------------
\* Properties of the delivery pass
\* ------------------------------------------------------------------------
PassReturned == spc = "returned"

PassPositions == 1..Len(pass_sources)

\* The source at position i gave new items to the pass.
YieldsNew(i) == ~outcomes[i].raises /\ outcomes[i].n > 0

\* The aggregate has an entry with the url and the capped items of source i.
HasEntryOf(i) ==
    \E k \in 1..Len(articles_by_source) :
        /\ articles_by_source[k].url = pass_sources[i]
        /\ articles_by_source[k].articles =
             SliceTo(NewArticles(outcomes[i], pass_sources[i]),
                     max_articles_per_source)

\* C16 as claimed: in a pass where the processing of a source failed, every
\* source was processed in configuration order, the failed ones contributed no
\* entry, and every other source that had new items has them in the aggregate.
C16_FailedSourceIsolated ==
    (PassReturned /\ \E i \in PassPositions : outcomes[i].raises) =>
      /\ processed = pass_sources
      /\ \A i \in PassPositions :
           /\ outcomes[i].raises =>
                ~\E k \in 1..Len(articles_by_source) :
                    articles_by_source[k].url = pass_sources[i]
           /\ YieldsNew(i) => HasEntryOf(i)

\* C19 as claimed: every call of send_newsletter_to_user makes exactly one
\* send_email call.
C19_OneEmailPerPass == PassReturned => emails = 1

\* C19 amended: a call makes one send_email call when the aggregate is not
\* empty and rendering did not fail, and none otherwise.
C19_OneEmailPerRenderedPass ==
    PassReturned =>
      emails = (IF articles_by_source # <<>> /\ last_pass # "render_error"
                THEN 1 ELSE 0)

\* C19 witness: one send_email call for an aggregate with entries of two
\* sources.
C19_Witness ==
    /\ PassReturned
    /\ emails = 1
    /\ Len(articles_by_source) = 2

\* C20: no send_email call and False for an empty source list (and no source
\* processed) and when no source yields a new item; False when send_email
\* raised; True only with one send_email call that returned.
C20_ResultOfThePass ==
    PassReturned =>
      /\ pass_sources = <<>> => ~pass_result /\ emails = 0 /\ processed = <<>>
      /\ (\A i \in PassPositions : ~YieldsNew(i)) => ~pass_result /\ emails = 0
      /\ last_pass = "send_error" => ~pass_result /\ emails = 1
      /\ pass_result => emails = 1 /\ last_pass = "sent"

\* C20 witness: send_email was called and raised, the pass returned False.
C20_Witness ==
    /\ PassReturned
    /\ last_pass = "send_error"
    /\ emails = 1
    /\ ~pass_result

\* The first min(n, m) items of xs, in order.
FirstItems(xs, m) == SubSeq(xs, 1, IF m < Len(xs) THEN m ELSE Len(xs))

\* C21 as claimed: every entry handed to rendering holds the first
\* min(n, max_articles_per_source) of the n new items of its source, in batch
\* order, and never more than max_articles_per_source items.
C21_CappedToFirstItems ==
    PassReturned =>
      \A k \in 1..Len(articles_by_source) :
        \E i \in PassPositions :
          /\ pass_sources[i] = articles_by_source[k].url
          /\ articles_by_source[k].articles =
               FirstItems(NewArticles(outcomes[i], pass_sources[i]),
                          max_articles_per_source)
          /\ Len(articles_by_source[k].articles) <= max_articles_per_source

\* C22 as claimed: every source of the pass that yields a new item has an
\* entry in the aggregate, with its url and its capped items.
C22_EveryYieldingSourceHasEntry ==
    PassReturned => \A i \in PassPositions : YieldsNew(i) => HasEntryOf(i)

CarriesOffset(d) == d.fmt \in {"rfc822_off", "iso_off"}

Instant(d) == IF CarriesOffset(d) THEN d.wall - d.off ELSE d.wall

\* C26: with lastRun known, an item the cache does not know whose timestamp
\* converts to UTC is included exactly when its UTC instant is after lastRun,
\* and two items whose timestamps denote the same instant, with whatever
\* offsets, get the same decision.
C26_ComparedInUtc ==
    Returned =>
      /\ \A i \in Positions :
           (LastRunKnown /\ HasTimestamp(i) /\ ~Cached(i)) =>
             (included[i] <=> Instant(articles[i].pubDate) > The(last_run_timestamp))
      /\ \A i, j \in Positions :
           (/\ Dated(i) /\ Dated(j)
            /\ ~Cached(i) /\ ~Cached(j)
            /\ Instant(articles[i].pubDate) = Instant(articles[j].pubDate)) =>
             included[i] = included[j]

\* C26 witness: two timestamps of the same instant, one with an offset and one
\* without, whose wall times lie on the two sides of lastRun, are both excluded.
C26_Witness ==
    /\ Returned
    /\ LastRunKnown
    /\ Len(articles) = 2
    /\ ~Cached(1) /\ ~Cached(2)
    /\ CarriesOffset(articles[1].pubDate) /\ articles[1].pubDate.off = 1
    /\ ~CarriesOffset(articles[2].pubDate)
    /\ Instant(articles[1].pubDate) = Instant(articles[2].pubDate)
    /\ articles[1].pubDate.wall > The(last_run_timestamp)
    /\ articles[2].pubDate.wall = The(last_run_timestamp)
    /\ included = <<FALSE, FALSE>>

\* ------------------------------------------------------------------------
\* Properties of the cache across sources
\* ------------------------------------------------------------------------
\* The last call processed another source than the one an undated item with
\* an identifier was returned for: that pass cached the identifier.
OtherSourceAfterUndated ==
    /\ Returned
    /\ tracked # None
    /\ source_url # The(tracked).url
    /\ ~parse_date(The(tracked).article.pubDate).some
    /\ The(tracked).article.link # ""

\* C27: while the identifier cached for a source S1 is in the cache, an item
\* of another source S2 with that identifier is dropped; and an insertion made
\* for S2 into the full cache evicts the identifier when it is the oldest.
C27_OneCacheForAllSources ==
    OtherSourceAfterUndated =>
      \A i \in Positions :
        /\ (LinkOf(i) = The(tracked).article.link /\ Cached(i)) => ~included[i]
        /\ (/\ Records(i)
            /\ Len(CacheBefore(i)) = deque_maxlen
            /\ CacheBefore(i)[1] = The(tracked).article.link)
           => ~InDeque(The(tracked).article.link, CacheAfter(i))

\* C27 witness: the pass for S1 returned an undated item and the next pass,
\* for S2, meets the same identifier in its batch and drops it.
C27_Witness ==
    /\ OtherSourceAfterUndated
    /\ The(tracked).url = Sources[1]
    /\ source_url = Sources[2]
    /\ cache0 = <<The(tracked).article.link>>
    /\ \E i \in Positions :
         LinkOf(i) = The(tracked).article.link /\ ~included[i]

\* ------------------------------------------------------------------------
\* Properties of send_email
\* ------------------------------------------------------------------------
AttemptOver == smtp_pc \in {"returned", "raised"}

\* C29: an attempt that established the connection calls quit exactly once,
\* also when starttls, login or send_message failed, and then the caller gets
\* an error; an attempt whose connection failed calls no quit and the caller
\* gets the error.
C29_QuitOncePerConnection ==
    AttemptOver =>
      /\ server # None => quit_calls = 1
      /\ failed_step \in {"starttls", "login", "send_message"} =>
           server # None /\ quit_calls = 1 /\ smtp_pc = "raised"
      /\ server = None => failed_step = "connect" /\ quit_calls = 0 /\ smtp_pc = "raised"

\* C29 witness: login failed on an established connection; quit was called
\* once and the error reached the caller.
C29_Witness ==
    /\ smtp_pc = "raised"
    /\ failed_step = "login"
    /\ server # None
    /\ quit_calls = 1

\* ------------------------------------------------------------------------
\* Properties of main
\* ------------------------------------------------------------------------
Exited == mpc = "exited"

Calls == [i \in 1..Len(ran) |-> ran[i].call]

\* A maintenance flag is on the command line.
FlagGiven == args.clear_all_cache \/ args.clear_cache_keys # None \/ args.init_db

\* The action of the first flag given, in the order --clear-all-cache,
\* --clear-cache-keys, --init-db.
FirstFlagAction ==
    IF args.clear_all_cache THEN "clear_all_cache"
    ELSE IF args.clear_cache_keys # None THEN "clear_cache_for_keys"
    ELSE "initialize_database"

\* The same with --clear-cache-keys counting only when keys follow it.
KeysGiven == args.clear_cache_keys # None /\ Len(The(args.clear_cache_keys)) > 0

EffectiveFlagGiven == args.clear_all_cache \/ KeysGiven \/ args.init_db

FirstEffectiveFlagAction ==
    IF args.clear_all_cache THEN "clear_all_cache"
    ELSE IF KeysGiven THEN "clear_cache_for_keys"
    ELSE "initialize_database"

\* What main returns for the way its last call ended.
ExitCodeFollowsOutcome ==
    /\ ended_by = "Exception" => exit_code = Some(1)
    /\ ended_by = "KeyboardInterrupt" => exit_code = Some(0)

\* C30 as claimed: 1 when loading, construction or the daemon raises, 0 on
\* KeyboardInterrupt; with a maintenance flag given main runs only the action
\* of the first flag in precedence and returns 0.
C30_ExitCodesAndMaintenanceFlags ==
    Exited =>
      /\ ~FlagGiven => ExitCodeFollowsOutcome
      /\ FlagGiven => Calls = <<FirstFlagAction>> /\ exit_code = Some(0)

\* C30 amended: 1 whenever a call made by main, a maintenance action
\* included, raises an Exception, 0 on KeyboardInterrupt; with a maintenance
\* flag given (--clear-cache-keys counting only with at least one key) main
\* runs only the action of the first such flag in precedence, with the keys
\* given, and returns 0 when the action returns; without one it loads the
\* configuration, builds the components and runs the daemon, in that order.
C30_ExitCodesAndEffectiveFlags ==
    Exited =>
      /\ ExitCodeFollowsOutcome
      /\ EffectiveFlagGiven =>
           /\ Calls = <<FirstEffectiveFlagAction>>
           /\ KeysGiven /\ ~args.clear_all_cache =>
                ran[1].keys = The(args.clear_cache_keys)
           /\ ended_by = "returns" => exit_code = Some(0)
      /\ ~EffectiveFlagGiven =>
           /\ ended_by # "returns"
           /\ \E n \in 1..3 :
                Calls = SubSeq(<<"load_from_file", "create_app_components",
                                 "daemon.run">>, 1, n)

\* C30 witness: all three flags were given; only the cache was cleared and
\* main returned 0.
C30_Witness ==
    /\ Exited
    /\ args.clear_all_cache /\ KeysGiven /\ args.init_db
    /\ Calls = <<"clear_all_cache">>
    /\ ended_by = "returns"
    /\ exit_code = Some(0)

\* ------------------------------------------------------------------------
\* Properties of the marker and of delivery
\* ------------------------------------------------------------------------
\* C31: the pass that returned an item recorded its marker although the item
\* was cut by the cap or its pass was not delivered, and a dated item at or
\* before that marker is in the result of no later pass for the source.
C31_MarkerAdvancesWithoutDelivery ==
    (tracked # None /\ The(tracked).fate # "sent") =>
      /\ source_metadata[The(tracked).url].last_successful_run # None
      /\ (TrackedSourceAgain /\ The(tracked).settled) =>
           \A i \in Positions : articles[i] = The(tracked).article => ~included[i]

\* C31 witness: the item was returned as new in a pass whose email could not
\* be sent; a later pass for the source meets it again and leaves it out.
C31_Witness ==
    /\ TrackedSourceAgain
    /\ The(tracked).fate = "send_error"
    /\ The(tracked).settled
    /\ \E i \in Positions : articles[i] = The(tracked).article /\ ~included[i]

\* C32 as claimed: an item with a parseable date that is in the batch of a
\* pass and was published after the previous extraction of the source is in
\* the result of that pass, the only pass that can still return it.
C32_NoNewDatedItemLost ==
    (Returned /\ prev_extracted_at # None) =>
      \A i \in Positions :
        (HasTimestamp(i) /\ Timestamp(i) > The(prev_extracted_at)) => included[i]

\* ------------------------------------------------------------------------
\* Properties of schedules that fire together
\* ------------------------------------------------------------------------
\* The schedules of the daemon that fire at instant t.
FiringAt(t) == {i \in 1..Len(crons) : Matches(crons[i], t)}

\* C34: every dispatch is the one dispatch of a computed fire time, and every
\* fire time computed after the first is later than the one before, so no
\* instant gets two dispatches however many schedules fire at it.
C34_OneDispatchPerInstant ==
    [][/\ calls' <= computed'
       /\ (computed' = computed + 1 /\ computed > 0) =>
            next_run_time' > next_run_time]_vars

\* C34 witness: two schedules fired at the same instant; the pass for that
\* instant has returned and the next fire time, a later instant, was computed
\* with one dispatch made.
C34_Witness ==
    /\ dpc = "computed"
    /\ computed = 2
    /\ calls = 1 /\ returns = 1
    /\ \E t \in 0..(next_run_time - 1) :
         /\ Cardinality(FiringAt(t)) >= 2
         /\ t = get_next_run_time(crons, 0)

\* ------------------------------------------------------------------------
\* Properties of the run records over passes
\* ------------------------------------------------------------------------
\* The stored marker of a source as a number, -1 for none.
MarkerOf(table, url) ==
    IF table[url].last_successful_run = None THEN -1
    ELSE The(table[url].last_successful_run)

\* C35: no step lowers the stored marker of a source or removes it, a
\* successful pass stores a marker at least as large as the one before, and a
\* failed pass leaves the run records as they were.
C35_MarkerNeverDecreases ==
    [][/\ \A s \in SourceUrls :
            MarkerOf(source_metadata', s) >= MarkerOf(source_metadata, s)
       /\ Fails => source_metadata' = source_metadata]_vars

\* C35 witness: a second successful pass has stored a larger marker than the
\* first one, which it filtered against.
C35_Witness ==
    /\ Returned
    /\ LastRunKnown
    /\ MarkerOf(source_metadata, source_url) > The(last_run_timestamp)

\* C36: add_source on a source that has a run record changes nothing, reading
\* a source that has none gives no record, and a successful pass that follows
\* a successful pass of its source is filtered against a marker.
C36_RegisteredSourceKeepsMarker ==
    /\ \A s \in SourceUrls :
         IF source_metadata[s].present
         THEN add_source(source_metadata, s) = source_metadata
         ELSE get_source_by_url(source_metadata, s) = None
    /\ (Returned /\ prev_extracted_at # None) => LastRunKnown

\* C36 witness: the second successful pass of a source filtered against the
\* marker of the first and left an item out, while another source was never
\* registered.
C36_Witness ==
    /\ Returned
    /\ prev_extracted_at # None
    /\ LastRunKnown
    /\ \E i \in Positions : ~included[i]
    /\ source_metadata[source_url].last_successful_run # None
    /\ \E s \in SourceUrls : ~source_metadata[s].present

\* ------------------------------------------------------------------------
\* Empty identifiers, order of the result, distinctness of the cache
\* ------------------------------------------------------------------------
\* C37: the cache never contains the empty identifier; an undated item with
\* an empty link is included by every call it appears in and leaves the cache
\* alone, and an item with an empty link is left out only by the comparison
\* of its timestamp with the last run.
C37_EmptyIdentifierNeverCached ==
    /\ ~InDeque("", non_dated_processed_urls)
    /\ Returned =>
         \A i \in Positions :
           LinkOf(i) = "" =>
             /\ ~Cached(i)
             /\ CacheAfter(i) = CacheBefore(i)
             /\ Undated(i) => included[i]
             /\ ~included[i] =>
                  /\ LastRunKnown /\ HasTimestamp(i)
                  /\ Timestamp(i) <= The(last_run_timestamp)

\* C37 witness: a call that started with identifiers in the cache included
\* two undated items with an empty link.
C37_Witness ==
    /\ Returned
    /\ cache0 # <<>>
    /\ \E i, j \in Positions :
         /\ i < j
         /\ LinkOf(i) = "" /\ Undated(i) /\ included[i]
         /\ LinkOf(j) = "" /\ Undated(j) /\ included[j]

\* The returned list picks positions of the batch in increasing order.
IsSubSequence(sub, whole) ==
    \E f \in [1..Len(sub) -> 1..Len(whole)] :
       /\ \A k \in 1..Len(sub) : sub[k] = whole[f[k]]
       /\ \A k, l \in 1..Len(sub) : k < l => f[k] < f[l]

\* C38: the returned list is a sub-sequence of the batch: each returned item
\* is the batch item at an included position, as it was given, and the
\* returned items stand in batch order.
C38_ResultIsOrderedSubSequence ==
    Returned =>
      /\ IsSubSequence(filtered_articles, articles)
      /\ Len(filtered_articles) = Cardinality({i \in Positions : included[i]})
      /\ \A k \in 1..Len(filtered_articles) :
           \E i \in Positions :
             /\ included[i]
             /\ filtered_articles[k] = articles[i]
             /\ Cardinality({j \in 1..i : included[j]}) = k

\* C38 witness: two different items were returned, in batch order, from a
\* batch that had an item left out.
C38_Witness ==
    /\ Returned
    /\ Len(filtered_articles) >= 2
    /\ filtered_articles[1] # filtered_articles[2]
    /\ \E i, j \in Positions :
         /\ i < j
         /\ filtered_articles[1] = articles[i]
         /\ filtered_articles[2] = articles[j]

\* C40: the identifiers in the cache are pairwise distinct.
C40_CacheEntriesDistinct ==
    \A i, j \in 1..Len(non_dated_processed_urls) :
      i # j => non_dated_processed_urls[i] # non_dated_processed_urls[j]

\* C40 witness: a call that found identifiers in the cache met one of them
\* again and recorded another on the error path of the evaluation.
C40_Witness ==
    /\ Returned
    /\ Len(non_dated_processed_urls) = 2
    /\ \E i, j \in Positions :
         /\ Cached(i) /\ ~included[i]
         /\ EvaluationFails(j) /\ ~Cached(j) /\ LinkOf(j) # ""
         /\ CacheAfter(j) # CacheBefore(j)

\* ------------------------------------------------------------------------
\* A daemon without schedules
\* ------------------------------------------------------------------------
\* C39: while the daemon has no schedule, no delivery pass has been called
\* and the loop is not past the computation of the next fire time; a daemon
\* built from an empty list of frequencies is at the top of its loop or has
\* failed there.
C39_NoScheduleNoDispatch ==
    /\ crons = <<>> =>
         /\ calls = 0
         /\ dpc \in {"new", "init_failed", "run", "crashed"}
    /\ (frequencies = <<>> /\ dpc # "new") =>
         /\ crons = <<>>
         /\ dpc \in {"run", "crashed"}

\* C39 witness: a daemon built from an empty list failed in its first
\* computation of the next fire time, with no pass called.
C39_Witness ==
    /\ frequencies = <<>>
    /\ crons = <<>>
    /\ dpc = "crashed"
    /\ computed = 0
    /\ calls = 0

====
